---- MODULE Spec2Model ----
(***************************************************************************)
(* SM3 hashing of 4096-byte messages and its multi-threaded batch          *)
(* dispatchers, modelled from sm3_4kb_complete1.c and                      *)
(* test1.1/aes_sm3_integrity.c.                                            *)
(*                                                                         *)
(* A uint32_t w is the pair <<w \div 2^16, w % 2^16>> of its 16-bit halves *)
(* (the model checker's integers are 32-bit signed); a byte is a number in *)
(* 0..255; memory is a function from byte offsets to bytes, with -1 for a  *)
(* byte nobody has written.                                                *)
(***************************************************************************)
EXTENDS Integers, Sequences, FiniteSets, TLC

(***************************************************************************)
(* Bounds of the model.                                                    *)
(***************************************************************************)
\* largest block_count (number of 4096-byte messages) of a batch call
MaxBlocks == 3
\* largest value sysconf(_SC_NPROCESSORS_ONLN) returns
MaxCores == 3
\* message contents are drawn from the patterns 0..MaxSeed
MaxSeed == 1
\* digest calls one caller makes in a row
MaxCalls == 2
\* offsets 0 .. MaxOffset-1 inside a 128-byte group at which an input byte is altered
MaxOffset == 16

(***************************************************************************)
(* uint32_t arithmetic.                                                    *)
(***************************************************************************)
Half == 256 * 256
Byte == 0..255
\* a uint32_t, and arrays of them
Word == (0..(Half - 1)) \X (0..(Half - 1))
Words == Seq(Seq(Nat))

RECURSIVE XorN(_, _, _)
XorN(a, b, n) == IF n = 0 THEN 0 ELSE ((a + b) % 2) + 2 * XorN(a \div 2, b \div 2, n - 1)
RECURSIVE AndN(_, _, _)
AndN(a, b, n) == IF n = 0 THEN 0 ELSE ((a % 2) * (b % 2)) + 2 * AndN(a \div 2, b \div 2, n - 1)
\* bitwise tables on bytes, evaluated once
XorTab == [a \in Byte |-> [b \in Byte |-> XorN(a, b, 8)]]
AndTab == [a \in Byte |-> [b \in Byte |-> AndN(a, b, 8)]]
Xor8(a, b) == XorTab[a][b]
Xor16(a, b) == XorTab[a \div 256][b \div 256] * 256 + XorTab[a % 256][b % 256]
And16(a, b) == AndTab[a \div 256][b \div 256] * 256 + AndTab[a % 256][b % 256]

Pow2(k) == 2^k

\* x ^ y, x & y, ~x, x | y, x + y (mod 2^32)
Xor[x \in Word, y \in Word] == <<Xor16(x[1], y[1]), Xor16(x[2], y[2])>>
And[x \in Word, y \in Word] == <<And16(x[1], y[1]), And16(x[2], y[2])>>
Not[x \in Word] == <<Half - 1 - x[1], Half - 1 - x[2]>>
Or[x \in Word, y \in Word] == Not[And[Not[x], Not[y]]]
Add[x \in Word, y \in Word] == <<(x[1] + y[1] + ((x[2] + y[2]) \div Half)) % Half, (x[2] + y[2]) % Half>>
\* (x << k) | (x >> (32 - k)) for 0 <= k < 32
Rot16(x, k) == IF k = 0 THEN x ELSE
    <<((x[1] * Pow2(k)) % Half) + (x[2] \div Pow2(16 - k)),
      ((x[2] * Pow2(k)) % Half) + (x[1] \div Pow2(16 - k))>>
Rotl[x \in Word, k \in 0..31] == IF k < 16 THEN Rot16(x, k) ELSE Rot16(<<x[2], x[1]>>, k - 16)
\* x << k (mod 2^32) for 0 <= k < 32
Shl[x \in Word, k \in 0..31] == IF k < 16
    THEN <<((x[1] * Pow2(k)) % Half) + ((x[2] * Pow2(k)) \div Half), (x[2] * Pow2(k)) % Half>>
    ELSE <<(x[2] * Pow2(k - 16)) % Half, 0>>
Swap16(h) == (h % 256) * 256 + (h \div 256)
\* __builtin_bswap32
Bswap32[x \in Word] == <<Swap16(x[2]), Swap16(x[1])>>
\* the uint32_t a little-endian host loads from / stores to 4 consecutive bytes
LoadLE32(b0, b1, b2, b3) == <<b2 + 256 * b3, b0 + 256 * b1>>
StoreLE32(x) == <<x[2] % 256, x[2] \div 256, x[1] % 256, x[1] \div 256>>

(***************************************************************************)
(* SM3 of sm3_4kb_complete1.c.                                             *)
(***************************************************************************)
SM3_IV == << <<29568, 5743>>, <<18708, 45753>>, <<5924, 17111>>, <<55946, 1536>>,
             <<43375, 12476>>, <<5681, 14506>>, <<58253, 61005>>, <<45307, 3662>> >>

\* the table holds 0x79cc4519 sixteen times, then 0x7a879d8a (index j + 1)
SM3_Tj == [j \in 1..64 |-> IF j <= 16 THEN <<31180, 17689>> ELSE <<31367, 40330>>]

P0[x \in Word] == Xor[Xor[x, Rotl[x, 9]], Rotl[x, 17]]
P1[x \in Word] == Xor[Xor[x, Rotl[x, 15]], Rotl[x, 23]]
FF[x \in Word, y \in Word, z \in Word, j \in 0..63] == IF j < 16 THEN Xor[Xor[x, y], z] ELSE Or[Or[And[x, y], And[x, z]], And[y, z]]
GG[x \in Word, y \in Word, z \in Word, j \in 0..63] == IF j < 16 THEN Xor[Xor[x, y], z] ELSE Or[And[x, y], And[Not[x], z]]

\* one iteration of "for (j = 16; j < 68; j++)": W (W[j] at index j + 1) gains W[j]
ExpandStep(W, j) ==
    LET temp == Xor[Xor[W[j - 16 + 1], W[j - 9 + 1]], Rotl[W[j - 3 + 1], 15]]
    IN Append(W, Xor[Xor[P1[temp], Rotl[W[j - 13 + 1], 7]], W[j - 6 + 1]])
\* the iterations lo .. hi-1 of that loop, in ascending order
ExpandRange[W \in Words, lo \in 0..68, hi \in 0..68] ==
    IF hi = lo + 1 THEN ExpandStep(W, lo)
    ELSE ExpandRange[ExpandRange[W, lo, (lo + hi) \div 2], (lo + hi) \div 2, hi]

\* what one round computes: j the index the round used, rin = <<A, ..., H>>
\* before the round, tj the round constant operand of SS1
RoundValue == [j : 0..63, rin : Words, tj : Word, SS1 : Word, SS2 : Word, TT1 : Word, TT2 : Word]

\* SS1, SS2, TT1, TT2 of iteration j of the main loop, software branch;
\* r = <<A, B, C, D, E, F, G, H>>
RoundValues[r \in Words, W \in Words, W_ \in Words, j \in 0..63] ==
    LET rA  == Rotl[r[1], 12]
        SS1 == Rotl[Add[Add[rA, r[5]], SM3_Tj[j + 1]], 7]
        SS2 == Xor[SS1, rA]
        TT1 == Add[Add[Add[FF[r[1], r[2], r[3], j], r[4]], SS2], W_[j + 1]]
        TT2 == Add[Add[Add[GG[r[5], r[6], r[7], j], r[8]], SS1], W[j + 1]]
    IN [j |-> j, rin |-> r, tj |-> SM3_Tj[j + 1], SS1 |-> SS1, SS2 |-> SS2, TT1 |-> TT1, TT2 |-> TT2]

\* "D = C; C = rotl(B, 9); B = A; A = TT1; H = G; G = rotl(F, 19); F = E; E = P0(TT2)"
UpdateRegs[r \in Words, v \in RoundValue] ==
    <<v.TT1, r[1], Rotl[r[2], 9], r[3], P0[v.TT2], r[5], Rotl[r[6], 19], r[7]>>

\* one iteration of the main loop (software branch); r = <<A, B, C, D, E, F, G, H>>
Round(r, W, W_, j) == UpdateRegs[r, RoundValues[r, W, W_, j]]

\* what the registers of never-written asm output operands may hold (a sample)
Garbage == {<<0, 0>>, <<Half - 1, Half - 1>>}

\* SS1, SS2, TT1, TT2 of iteration j with the inline assembly of the
\* __ARM_FEATURE_SM3 branch, instruction by instruction.
\*  - SS1: add, add, ror #20, ror #25 on A + E + SM3_Tj[j]; the two rotates make
\*    one rotate right by 45 mod 32 = 13, a rotate left by 19.
\*  - j < 16: TT1 and TT2 as the eor / add sequences compute them.
\*  - j >= 16: the statements have two outputs, so %w1 is the unwritten output
\*    SS2 (x), %w2..%w7 the inputs: and %w0 = x & A; bic %w7 = B & ~x;
\*    orr; add C; add D; add SS2; likewise for TT2 with E, F, G, H, SS1.
\*  - the "=r" outputs are not early-clobber: with alias the compiler gave
\*    %w0 the register of the statement's last input operand.
asm_RoundValues[r \in Words, W \in Words, W_ \in Words, j \in 0..63, alias \in BOOLEAN, x \in Word] ==
    LET AE  == Add[r[1], r[5]]
        SS1 == Rotl[Add[AE, IF alias THEN AE ELSE SM3_Tj[j + 1]], 19]
        SS2 == Xor[SS1, Rotl[r[1], 12]]
        lo1 == Add[Add[Xor[Xor[r[1], r[2]], r[3]], r[4]], SS2]
        lo2 == Add[Add[Xor[Xor[r[5], r[6]], r[7]], r[8]], SS1]
        hi1 == Add[Add[Add[IF alias THEN And[r[2], Not[x]]
                                    ELSE Or[And[x, r[1]], And[r[2], Not[x]]], r[3]], r[4]], SS2]
        hi2 == Add[Add[Add[IF alias THEN And[r[6], Not[x]]
                                    ELSE Or[And[x, r[5]], And[r[6], Not[x]]], r[7]], r[8]], SS1]
        TT1 == IF j < 16 THEN Add[lo1, IF alias THEN lo1 ELSE W_[j + 1]] ELSE hi1
        TT2 == IF j < 16 THEN Add[lo2, IF alias THEN lo2 ELSE W[j + 1]] ELSE hi2
    IN [j |-> j, rin |-> r, tj |-> SM3_Tj[j + 1], SS1 |-> SS1,
        SS2 |-> IF j < 16 THEN SS2 ELSE x, TT1 |-> TT1, TT2 |-> TT2]

\* the iterations lo .. hi-1 of the main loop, in ascending order
RoundsRange[r \in Words, W \in Words, W_ \in Words, lo \in 0..64, hi \in 0..64] ==
    IF hi = lo + 1 THEN Round(r, W, W_, lo)
    ELSE RoundsRange[RoundsRange[r, W, W_, lo, (lo + hi) \div 2], W, W_, (lo + hi) \div 2, hi]

\* "for (j = 0; j < 16; j++) W[j] = __builtin_bswap32(block[j])"
LoadW[block \in Words] == [j \in 1..16 |-> Bswap32[block[j]]]
\* "for (j = 0; j < 64; j++) W_[j] = W[j] ^ W[j+4]"
WPrime[W \in Words] == [j \in 1..64 |-> Xor[W[j], W[j + 4]]]
\* state[i] = original_state[i] ^ (A .. H), fin = <<A, ..., H>> after the rounds
FinalXor[state \in Words, fin \in Words] ==
    <<Xor[state[1], fin[1]], Xor[state[2], fin[2]], Xor[state[3], fin[3]],
      Xor[state[4], fin[4]], Xor[state[5], fin[5]], Xor[state[6], fin[6]],
      Xor[state[7], fin[7]], Xor[state[8], fin[8]]>>
\* the rounds and the final xor, W[0..67] given
CompressExpanded[state \in Words, W \in Words] ==
    FinalXor[state, RoundsRange[state, W, WPrime[W], 0, 64]]

\* state after sm3_compress_hw(state, block); block holds the 16 words as loaded
sm3_compress_hw[state \in Words, block \in Words] ==
    CompressExpanded[state, ExpandRange[LoadW[block], 16, 68]]

(***************************************************************************)
(* Messages and padding.                                                   *)
(***************************************************************************)
Seeds == 0..MaxSeed
\* byte p of the message with pattern s (the i % 256 fill of the benchmarks, shifted by s)
MsgByte(s, p) == (p + s) % 256

\* LengthBE_noswap: the 8 bytes of bit_length stored without __builtin_bswap64
LengthBE_noswap == <<(4096 * 8) % 256, (4096 * 8) \div 256, 0, 0, 0, 0, 0, 0>>
\* the 8 bytes memcpy stores for __builtin_bswap64(4096 * 8) on a little-endian host
LengthBE == <<0, 0, 0, 0, 0, 0, (4096 * 8) \div 256, (4096 * 8) % 256>>

\* byte q of padded_data after sm3_padding_4kb(padded_data, input); input is a
\* function from 0..4095 to bytes
sm3_padding_4kb(input, q) ==
    IF q < 4096 THEN input[q]
    ELSE IF q = 4096 THEN 128
    ELSE IF q < 4097 + 55 THEN 0
    ELSE LengthBE[q - 4152 + 1]

\* the contents of a 4096-byte input and of padded_data[4160]
Input4kb == [0..4095 -> Byte]
PaddedData4kb == [0..4159 -> Byte]

(***************************************************************************)
(* sm3_4kb_optimized: the block loop as a step function.                   *)
(*                                                                         *)
(* h.pc is the position in the nested loops, h.block_ptr the offset of     *)
(* block_ptr from aligned_input in uint32_t units, h.calls the history of  *)
(* the calls of sm3_compress_hw (block index, state passed, state left),   *)
(* h.oob whether a block was read past the 4160 bytes of padded_data.      *)
(***************************************************************************)
HashStates == [pc : STRING, i : Nat, j : Nat, block_ptr : Nat, state : Words,
               calls : Seq([blk : Nat, sin : Words, sout : Words]), oob : BOOLEAN]

\* uint32_t state[8] = SM3_IV, block_ptr = aligned_input (padded_data is 16-byte aligned)
HashInit == [pc |-> "outer", i |-> 0, j |-> 0, block_ptr |-> 0, state |-> SM3_IV,
             calls |-> <<>>, oob |-> FALSE]

\* memcpy(block, block_ptr, 64): the 16 words at block_ptr; padded[q] is byte q of
\* padded_data, a read past its end (undefined behaviour) is recorded and reads 0
LoadBlock[padded \in PaddedData4kb, ptr \in Nat] ==
    [w \in 1..16 |->
        LET q == 4 * (ptr + w - 1)
        IN IF q + 3 < 4160 THEN LoadLE32(padded[q], padded[q + 1], padded[q + 2], padded[q + 3])
           ELSE <<0, 0>>]

\* memcpy(block, block_ptr, 64); sm3_compress_hw(state, block); block_ptr += 16
Advance[h \in HashStates, sout \in Words] ==
    [h EXCEPT !.state = sout,
              !.calls = Append(h.calls, [blk |-> h.block_ptr \div 16, sin |-> h.state, sout |-> sout]),
              !.oob = h.oob \/ (4 * h.block_ptr + 64 > 4160),
              !.block_ptr = h.block_ptr + 16,
              !.j = h.j + 1]
DoBlock(h, padded) == Advance[h, sm3_compress_hw[h.state, LoadBlock[padded, h.block_ptr]]]

\* the guard "i + j < 65" of the two inner loops (InnerBound_le: with <= for <)
InnerBound_le(i, j) == i + j <= 65
InnerBound(i, j) == i + j < 65

\* one step of "for (i = 0; i < 65; i += 8) { for (j = 0; j < 4 && i + j < 65; j++) ...;
\* for (j = 4; j < 8 && i + j < 65; j++) ...; }"
HashStep(h, padded) ==
    CASE h.pc = "outer" ->
            IF h.i < 65 THEN [h EXCEPT !.pc = "inner1", !.j = 0] ELSE [h EXCEPT !.pc = "output"]
      [] h.pc = "inner1" ->
            IF h.j < 4 /\ InnerBound(h.i, h.j) THEN DoBlock(h, padded)
            ELSE [h EXCEPT !.pc = "inner2", !.j = 4]
      [] h.pc = "inner2" ->
            IF h.j < 8 /\ InnerBound(h.i, h.j) THEN DoBlock(h, padded)
            ELSE [h EXCEPT !.pc = "outer", !.i = h.i + 8]
      [] OTHER -> h

\* the loops run to their end: no more than 128 steps are needed
HashRun[padded \in PaddedData4kb] ==
    LET Run[g \in HashStates, n \in 1..128] ==
            IF n = 1 THEN HashStep(g, padded)
            ELSE Run[Run[g, n \div 2], n - (n \div 2)]
    IN Run[HashInit, 128]

\* the 32 bytes the output stage stores: state[i] byte-swapped, in memory order
DigestBytes[state \in Words] ==
    LET b == [i \in 1..8 |-> StoreLE32(Bswap32[state[i]])]
    IN [k \in 1..32 |-> b[((k - 1) \div 4) + 1][((k - 1) % 4) + 1]]

\* final state[8] of sm3_4kb_optimized on the 4096 bytes input (a function on 0..4095)
sm3_4kb_optimized_state[input \in Input4kb] ==
    HashRun[[q \in 0..4159 |-> sm3_padding_4kb(input, q)]].state

(***************************************************************************)
(* SM3 and the XOR-fold digest of test1.1/aes_sm3_integrity.c.             *)
(***************************************************************************)
\* the 64-entry table of aes_sm3_integrity.c (index j + 1)
aes_SM3_Tj == <<
    <<31180, 17689>>, <<62360, 35378>>, <<59185, 5221>>, <<52834, 10443>>,
    <<40132, 20887>>, <<14728, 41775>>, <<29457, 18014>>, <<58914, 36028>>,
    <<52293, 6521>>, <<39050, 13043>>, <<12564, 26087>>, <<25128, 52174>>,
    <<50257, 38812>>, <<34979, 12089>>, <<4422, 24179>>, <<8844, 48358>>,
    <<64611, 9704>>, <<35889, 4593>>, <<55454, 3744>>, <<12878, 36794>>,
    <<31341, 30441>>, <<58256, 18855>>, <<12388, 39290>>, <<49324, 10679>>,
    <<27806, 3723>>, <<48327, 29780>>, <<21688, 64263>>, <<14487, 2244>>,
    <<30457, 35034>>, <<20202, 65439>>, <<62167, 55870>>, <<51879, 51362>>,
    <<34124, 51192>>, <<55100, 40191>>, <<28584, 32335>>, <<26712, 5393>>,
    <<46185, 38175>>, <<18878, 20034>>, <<63006, 9570>>, <<49225, 45892>>,
    <<60065, 10234>>, <<54511, 12421>>, <<3862, 15440>>, <<55717, 31354>>,
    <<17655, 31064>>, <<14833, 26895>>, <<33342, 54806>>, <<14571, 17576>>,
    <<63735, 49305>>, <<25159, 60078>>, <<42203, 3433>>, <<49353, 9363>>,
    <<48336, 11032>>, <<23701, 49044>>, <<60472, 30691>>, <<21306, 33222>>,
    <<20843, 39836>>, <<24744, 33953>>, <<17799, 63995>>, <<20196, 45640>>,
    <<63179, 26494>>, <<36138, 19594>>, <<15367, 4963>>, <<19612, 4146>> >>

\* W with P1(W[a] ^ W[b] ^ rotl(W[c], 15)) ^ rotl(W[d], 7) ^ W[e] stored as its next entry
aes_ExpandWord[W \in Words, a \in Nat, b \in Nat, c \in Nat, d \in Nat, e \in Nat] ==
    Append(W, Xor[Xor[P1[Xor[Xor[W[a + 1], W[b + 1]], Rotl[W[c + 1], 15]]],
                      Rotl[W[d + 1], 7]], W[e + 1]])

\* the unrolled iteration with W[j+3] rotating W[j-3] where the source rotates W[j]
aes_ExpandStep_stale(W, k) ==
    LET j == 16 + 4 * k
    IN aes_ExpandWord[
           aes_ExpandWord[
               aes_ExpandWord[
                   aes_ExpandWord[W, j - 16, j - 9, j - 3, j - 13, j - 6],
                   j - 15, j - 8, j - 2, j - 12, j - 5],
               j - 14, j - 7, j - 1, j - 11, j - 4],
           j - 13, j - 6, j - 3, j - 10, j - 3]
\* iteration k of "for (j = 16; j < 68; j += 4)": W gains W[j], W[j+1], W[j+2], W[j+3]
aes_ExpandStep(W, k) ==
    LET j == 16 + 4 * k
    IN aes_ExpandWord[
           aes_ExpandWord[
               aes_ExpandWord[
                   aes_ExpandWord[W, j - 16, j - 9, j - 3, j - 13, j - 6],
                   j - 15, j - 8, j - 2, j - 12, j - 5],
               j - 14, j - 7, j - 1, j - 11, j - 4],
           j - 13, j - 6, j, j - 10, j - 3]
\* the iterations lo .. hi-1 of that loop
aes_ExpandRange[W \in Words, lo \in 0..13, hi \in 0..13] ==
    IF hi = lo + 1 THEN aes_ExpandStep(W, lo)
    ELSE aes_ExpandRange[aes_ExpandRange[W, lo, (lo + hi) \div 2], (lo + hi) \div 2, hi]

\* iteration k of "for (j = 0; j < 64; j += 4)": V (the array W_) gains W_[j .. j+3], W fixed
aes_WPrimeStep(W, V, k) ==
    LET j == 4 * k
    IN V \o <<Xor[W[j + 1], W[j + 5]], Xor[W[j + 2], W[j + 6]],
              Xor[W[j + 3], W[j + 7]], Xor[W[j + 4], W[j + 8]]>>
\* the iterations lo .. hi-1 of that loop
aes_WPrimeRange[W \in Words, V \in Words, lo \in 0..16, hi \in 0..16] ==
    IF hi = lo + 1 THEN aes_WPrimeStep(W, V, lo)
    ELSE aes_WPrimeRange[W, aes_WPrimeRange[W, V, lo, (lo + hi) \div 2], (lo + hi) \div 2, hi]

\* SS1, SS2, TT1, TT2 of one unrolled round; low selects the j < 16 forms of FF
\* and GG written out in the first loop; the round constant operand is
\* SM3_Tj[j] << (j % 32)
aes_RoundValues[r \in Words, W \in Words, V \in Words, j \in 0..63, low \in BOOLEAN] ==
    LET rot_a == Rotl[r[1], 12]
        tj  == Shl[aes_SM3_Tj[j + 1], j % 32]
        SS1 == Rotl[Add[Add[rot_a, r[5]], tj], 7]
        SS2 == Xor[SS1, rot_a]
        ff  == IF low THEN Xor[Xor[r[1], r[2]], r[3]]
                      ELSE Or[Or[And[r[1], r[2]], And[r[1], r[3]]], And[r[2], r[3]]]
        gg  == IF low THEN Xor[Xor[r[5], r[6]], r[7]]
                      ELSE Or[And[r[5], r[6]], And[Not[r[5]], r[7]]]
        TT1 == Add[Add[Add[ff, r[4]], SS2], V[j + 1]]
        TT2 == Add[Add[Add[gg, r[8]], SS1], W[j + 1]]
    IN [j |-> j, rin |-> r, tj |-> tj, SS1 |-> SS1, SS2 |-> SS2, TT1 |-> TT1, TT2 |-> TT2]

\* one unrolled round: the values, then "D = C; C = ...; E = P0(TT2)"
aes_Round[r \in Words, W \in Words, V \in Words, j \in 0..63, low \in BOOLEAN] ==
    UpdateRegs[r, aes_RoundValues[r, W, V, j, low]]

\* iteration k of "for (j = 0; j < 16; j += 4)": four rounds
aes_RoundsLow(r, W, V, k) ==
    aes_Round[aes_Round[aes_Round[aes_Round[r, W, V, 4 * k, TRUE],
                                  W, V, 4 * k + 1, TRUE], W, V, 4 * k + 2, TRUE], W, V, 4 * k + 3, TRUE]
\* the iterations lo .. hi-1 of that loop
aes_LowRange[r \in Words, W \in Words, V \in Words, lo \in 0..4, hi \in 0..4] ==
    IF hi = lo + 1 THEN aes_RoundsLow(r, W, V, lo)
    ELSE aes_LowRange[aes_LowRange[r, W, V, lo, (lo + hi) \div 2], W, V, (lo + hi) \div 2, hi]

\* iteration k of "for (j = 16; j < 64; j += 2)": two rounds
aes_RoundsHigh(r, W, V, k) ==
    aes_Round[aes_Round[r, W, V, 16 + 2 * k, FALSE], W, V, 16 + 2 * k + 1, FALSE]
\* the iterations lo .. hi-1 of that loop
aes_HighRange[r \in Words, W \in Words, V \in Words, lo \in 0..24, hi \in 0..24] ==
    IF hi = lo + 1 THEN aes_RoundsHigh(r, W, V, lo)
    ELSE aes_HighRange[aes_HighRange[r, W, V, lo, (lo + hi) \div 2], W, V, (lo + hi) \div 2, hi]

\* both round loops and the final xor, W[0..67] and W_[0..63] given
aes_CompressRounds[state \in Words, W \in Words, V \in Words] ==
    FinalXor[state, aes_HighRange[aes_LowRange[state, W, V, 0, 4], W, V, 0, 24]]
\* the W_ loop and what follows it, W[0..67] given
aes_CompressExpanded[state \in Words, W \in Words] ==
    aes_CompressRounds[state, W, aes_WPrimeRange[W, <<>>, 0, 16]]

\* state after sm3_compress_hw(state, block) of aes_sm3_integrity.c; block holds
\* the 16 words already byte-swapped by the caller
aes_sm3_compress_hw[state \in Words, block \in Words] ==
    aes_CompressExpanded[state, aes_ExpandRange[[j \in 1..16 |-> block[j]], 0, 13]]

\* out[k] of group i: block[k] ^ block[k+8] ^ ... ^ block[k+120], block = input + i * 128
aes_fold(input, i, k) ==
    LET b(m) == input[128 * i + k + 8 * m]
    IN Xor8(Xor8(Xor8(Xor8(Xor8(Xor8(Xor8(Xor8(Xor8(Xor8(Xor8(Xor8(Xor8(Xor8(Xor8(
           b(0), b(1)), b(2)), b(3)), b(4)), b(5)), b(6)), b(7)), b(8)), b(9)), b(10)),
           b(11)), b(12)), b(13)), b(14)), b(15))

\* byte q of compressed[256]
aes_compressed(input, q) == aes_fold(input, q \div 8, q % 8)

\* sm3_block of iteration i of "for (i = 0; i < 4; i++)"
aes_sm3_block(input, i) ==
    [w \in 1..16 |->
        LET q == 64 * i + 4 * (w - 1)
        IN Bswap32[LoadLE32(aes_compressed(input, q), aes_compressed(input, q + 1),
                            aes_compressed(input, q + 2), aes_compressed(input, q + 3))]]

\* final sm3_state[8] of aes_sm3_integrity_256bit on the 4096 bytes input
aes_sm3_integrity_state[input \in Input4kb] ==
    aes_sm3_compress_hw[aes_sm3_compress_hw[aes_sm3_compress_hw[
        aes_sm3_compress_hw[SM3_IV, aes_sm3_block(input, 0)], aes_sm3_block(input, 1)],
        aes_sm3_block(input, 2)], aes_sm3_block(input, 3)]

\* the 32 bytes aes_sm3_integrity_256bit stores at output
aes_sm3_integrity_256bit[input \in Input4kb] == DigestBytes[aes_sm3_integrity_state[input]]
\* the 16 bytes aes_sm3_integrity_128bit copies from full_hash to output
aes_sm3_integrity_128bit[input \in Input4kb] == SubSeq(aes_sm3_integrity_256bit[input], 1, 16)

\* out[k] of group i in the __ARM_FEATURE_CRYPTO branch: lane k of
\* b0 ^ b1 ^ ... ^ b7, bm the 16 bytes at block + 16 * m; vst1_u8 stores the
\* lanes 0..7 (vget_low_u8), the lanes 8..15 are dropped
aes_fold_neon(input, i, k) ==
    LET b(m) == input[128 * i + k + 16 * m]
        x01 == Xor8(b(0), b(1))
        x23 == Xor8(b(2), b(3))
        x45 == Xor8(b(4), b(5))
        x67 == Xor8(b(6), b(7))
    IN Xor8(Xor8(x01, x23), Xor8(x45, x67))

\* the 8 bytes stored at compressed + i * 8, by either branch
aes_fold_group(input, i, neon) ==
    [k \in 1..8 |-> IF neon THEN aes_fold_neon(input, i, k - 1) ELSE aes_fold(input, i, k - 1)]

\* sm3_block of iteration i of "for (i = 0; i < 4; i++)", compressed[256] given
\* as the sequence comp
aes_sm3_block_of(comp, i) ==
    [w \in 1..16 |->
        LET q == 64 * i + 4 * (w - 1)
        IN Bswap32[LoadLE32(comp[q + 1], comp[q + 2], comp[q + 3], comp[q + 4])]]

\* final sm3_state[8] of the second stage on compressed[256]
aes_sm3_state_of[comp \in Seq(Nat)] ==
    aes_sm3_compress_hw[aes_sm3_compress_hw[aes_sm3_compress_hw[
        aes_sm3_compress_hw[SM3_IV, aes_sm3_block_of(comp, 0)], aes_sm3_block_of(comp, 1)],
        aes_sm3_block_of(comp, 2)], aes_sm3_block_of(comp, 3)]

(***************************************************************************)
(* sm3_compress_hw of either file as a step function.                      *)
(*                                                                         *)
(* c.file is 1 for sm3_4kb_complete1.c and 2 for aes_sm3_integrity.c,      *)
(* c.asm whether the __ARM_FEATURE_SM3 branch was compiled, c.alias and    *)
(* c.garbage what the build made of its asm operands, c.state the state    *)
(* array, c.W and c.V the entries of W and W_ filled so far, c.r the       *)
(* registers A..H, c.trace the values of every round run so far.           *)
(***************************************************************************)
CompressStates == [file : 0..2, asm : BOOLEAN, alias : BOOLEAN, garbage : Word,
                   pc : STRING, j : Nat, state : Words, block : Words,
                   W : Words, V : Words, r : Words, trace : Seq(RoundValue)]

CompressInit == [file |-> 1, asm |-> FALSE, alias |-> FALSE, garbage |-> <<0, 0>>,
                 pc |-> "load", j |-> 0, state |-> SM3_IV, block |-> <<>>,
                 W |-> <<>>, V |-> <<>>, r |-> SM3_IV, trace |-> <<>>]

\* iteration c.j of the main loop of file 1: its values are kept, A..H updated
DoRound[c \in CompressStates] ==
    LET j == c.j
        v == IF c.asm THEN asm_RoundValues[c.r, c.W, c.V, j, c.alias, c.garbage]
                      ELSE RoundValues[c.r, c.W, c.V, j]
    IN [c EXCEPT !.r = UpdateRegs[c.r, v], !.trace = Append(c.trace, v)]

\* the round of file 2 written with index j + off in the loop body, j = c.j
aes_DoRound[c \in CompressStates, off \in 0..3, low \in BOOLEAN] ==
    LET v == aes_RoundValues[c.r, c.W, c.V, c.j + off, low]
    IN [c EXCEPT !.r = UpdateRegs[c.r, v], !.trace = Append(c.trace, v)]

\* the body of the first loop with its first two rounds exchanged
aes_rounds_low_body_swapped(c) ==
    aes_DoRound[aes_DoRound[aes_DoRound[aes_DoRound[c, 1, TRUE], 0, TRUE], 2, TRUE], 3, TRUE]
\* the body of the first loop of file 2: rounds j, j + 1, j + 2, j + 3 as written
aes_rounds_low_body(c) ==
    aes_DoRound[aes_DoRound[aes_DoRound[aes_DoRound[c, 0, TRUE], 1, TRUE], 2, TRUE], 3, TRUE]

(***************************************************************************)
(* The unpadded reference hashes: sm3_4kb_traditional of                   *)
(* sm3_4kb_complete1.c and sm3_4kb of aes_sm3_integrity.c.                 *)
(***************************************************************************)
\* memcpy(current_block, block_ptr, 64) of iteration i: the 16 words at input + 64 * i
input_block(input, i) ==
    [w \in 1..16 |->
        LET q == 64 * i + 4 * (w - 1)
        IN LoadLE32(input[q], input[q + 1], input[q + 2], input[q + 3])]

\* the compression written out in the loop body of sm3_4kb_traditional: the
\* byte swap of current_block, expansion, W_, 64 rounds with FF, GG and
\* SM3_Tj[j], final xor
traditional_compress[state \in Words, block \in Words] ==
    CompressExpanded[state, ExpandRange[LoadW[block], 16, 68]]

\* final state[8] of sm3_4kb_traditional: the 64 blocks of input, no padding
sm3_4kb_traditional_state[input \in Input4kb] ==
    LET Run[st \in Words, lo \in 0..64, hi \in 0..64] ==
            IF hi = lo + 1 THEN traditional_compress[st, input_block(input, lo)]
            ELSE Run[Run[st, lo, (lo + hi) \div 2], (lo + hi) \div 2, hi]
    IN Run[SM3_IV, 0, 64]

\* block of sm3_4kb: block[j] = __builtin_bswap32(src[j]), src = input + i * 64
sm3_4kb_block(input, i) == [w \in 1..16 |-> Bswap32[input_block(input, i)[w]]]

\* final state[8] of sm3_4kb: the 64 blocks of input, two per iteration, no padding
sm3_4kb_state[input \in Input4kb] ==
    LET Run[st \in Words, lo \in 0..32, hi \in 0..32] ==
            IF hi = lo + 1
            THEN aes_sm3_compress_hw[aes_sm3_compress_hw[st, sm3_4kb_block(input, 2 * lo)],
                                     sm3_4kb_block(input, 2 * lo + 1)]
            ELSE Run[Run[st, lo, (lo + hi) \div 2], (lo + hi) \div 2, hi]
    IN Run[SM3_IV, 0, 32]

(***************************************************************************)
(* Inputs, digest tables and the output buffer.                            *)
(***************************************************************************)
\* the thread_hint values callers pass (0 and the documented 1, 2, 4, 8)
ThreadHints == {0, 1, 2, 4, 8}
\* addresses of the output buffer: 16-byte aligned, and 8 past an aligned address
OutputPtrs == {16, 24}
\* message ids: message i of the input array with pattern s is message s + i
MsgIds == 0..(MaxSeed + MaxBlocks - 1)
Threads == 0..(MaxCores - 1)
\* bytes of memory from the start of the output buffer: the largest buffer
\* (32 bytes per message) and the 16 bytes after it
MemSize == 32 * MaxBlocks + 16

\* the 4096 bytes of message id
Message(n) == [p \in 0..4095 |-> MsgByte(n, p)]
\* byte q of the input array with pattern s: messages s, s+1, ... back to back
InputByte(s, q) == MsgByte(s + (q \div 4096), q % 4096)

\* byte q of padded_buffer after the padding loop of sm3_4kb_batch_optimized:
\* sm3_padding_4kb(padded_buffer + i * 4160, input + i * 4096)
padded_buffer(s, q) ==
    IF q % 4160 < 4096 THEN InputByte(s, 4096 * (q \div 4160) + (q % 4160))
    ELSE IF q % 4160 = 4096 THEN 128
    ELSE IF q % 4160 < 4097 + 55 THEN 0
    ELSE LengthBE[(q % 4160) - 4152 + 1]

\* the 4096 bytes thread_worker reads at data->input + i * 4096 when
\* data->input is padded_buffer
BatchWindow(s, i) == [p \in 0..4095 |-> padded_buffer(s, 4096 * i + p)]

\* final state[8] of sm3_4kb_optimized for message id
Sm3State == [n \in MsgIds |-> sm3_4kb_optimized_state[Message(n)]]
\* 32 bytes sm3_4kb_optimized produces for message id
Sm3Digest == [n \in MsgIds |-> DigestBytes[Sm3State[n]]]
\* 32 bytes sm3_4kb_optimized produces for the worker's block i of padded_buffer
BatchDigest ==
    [s \in Seeds |-> [i \in 0..(MaxBlocks - 1) |->
        DigestBytes[sm3_4kb_optimized_state[BatchWindow(s, i)]]]]
\* 32 bytes aes_sm3_integrity_256bit produces for message id
AesDigest == [n \in MsgIds |-> aes_sm3_integrity_256bit[Message(n)]]
\* final states of aes_sm3_integrity_256bit, sm3_4kb_traditional and sm3_4kb for
\* the message with pattern s
AesState == [n \in Seeds |-> aes_sm3_integrity_state[Message(n)]]
TraditionalState == [n \in Seeds |-> sm3_4kb_traditional_state[Message(n)]]
Sm3_4kbState == [n \in Seeds |-> sm3_4kb_state[Message(n)]]

\* input arrays: pattern s holds the messages s, s+1, ...; Replaced(s, k) is
\* pattern s with message k replaced by other bytes (message OtherMsg)
OtherMsg == MaxSeed + MaxBlocks
Pattern(s) == [i \in 0..(MaxBlocks - 1) |-> s + i]
Replaced(s, k) == [Pattern(s) EXCEPT ![k] = OtherMsg]
\* byte q of padded_buffer after the padding loop of sm3_4kb_batch_optimized on
\* the input array arr: message q / 4160 padded, at stride 4160
ArrayPadded(arr, q) ==
    IF q % 4160 < 4096 THEN MsgByte(arr[q \div 4160], q % 4160)
    ELSE IF q % 4160 = 4096 THEN 128
    ELSE IF q % 4160 < 4097 + 55 THEN 0
    ELSE LengthBE[(q % 4160) - 4152 + 1]
\* the 4096 bytes thread_worker reads at data->input + i * 4096 in that buffer
ArrayWindow(arr, i) == [p \in 0..4095 |-> ArrayPadded(arr, 4096 * i + p)]
\* slot i of sm3_4kb_batch_optimized on pattern s with message k replaced, k # i
ReplacedBatchDigest ==
    [s \in Seeds |-> [k \in 0..(MaxBlocks - 1) |-> [i \in 0..(MaxBlocks - 1) |->
        IF k = i THEN <<>>
        ELSE DigestBytes[sm3_4kb_optimized_state[ArrayWindow(Replaced(s, k), i)]]]]]

\* aligned_output = (output + 15) & ~15, on addresses
AlignUp(ptr) == ((ptr + 15) \div 16) * 16

\* memory after storing the byte sequence b at offsets lo .. lo + Len(b) - 1
StoreBytes(m, lo, b) ==
    [q \in DOMAIN m |-> IF q >= lo /\ q < lo + Len(b) THEN b[q - lo + 1] ELSE m[q]]

\* memory after memcpy(output, aligned_output, 32) with dst = output and
\* src = dst + d, 0 < d < 32: the regions overlap, which memcpy leaves
\* undefined; fwd copies as memmove does, otherwise bytes are copied from the
\* last to the first and a source byte already overwritten is read back
memcpy_overlap(m, dst, d, fwd) ==
    [q \in DOMAIN m |->
        IF q >= dst /\ q < dst + 32
        THEN IF fwd THEN m[q + d]
             ELSE m[q + d + d * ((dst + 31 - q) \div d)]
        ELSE m[q]]

(***************************************************************************)
(* thread_worker: the range of blocks of one worker.                       *)
(***************************************************************************)
blocks_per_thread(bc, nt) == bc \div nt
start_block(tid, bc, nt) == tid * blocks_per_thread(bc, nt)
\* end_block_nolast: end_block without the case of the last thread
end_block_nolast(tid, bc, nt) == start_block(tid, bc, nt) + blocks_per_thread(bc, nt)
end_block(tid, bc, nt) ==
    IF tid = nt - 1 THEN bc ELSE start_block(tid, bc, nt) + blocks_per_thread(bc, nt)

(***************************************************************************)
(* Arithmetic in int (32 bits, signed) on values of up to 2^31 - 1.  A     *)
(* value is written <<hi, lo>> for hi * 2^16 + lo, 0 <= lo < 2^16.         *)
(***************************************************************************)
\* the mathematical product a * c, 0 <= a < 2^31, 0 <= c < 2^13
Product(a, c) ==
    LET pl == (a % Half) * c
    IN <<(a \div Half) * c + pl \div Half, pl % Half>>
\* whether the value fits an int
FitsInt(x) == x[1] < Half \div 2
\* the value reduced to 32 bits and read as a signed int
WrapInt(x) == <<((x[1] + Half \div 2) % Half) - Half \div 2, x[2]>>
\* a * c evaluated in int: when the product does not fit the behaviour is
\* undefined; the build either keeps the low 32 bits (a 32-bit multiply) or,
\* wide, evaluates the expression in a 64-bit register
IntProduct(a, c, wide) ==
    IF FitsInt(Product(a, c)) \/ wide THEN Product(a, c) ELSE WrapInt(Product(a, c))
\* one evaluated expression: its name, its operand, its mathematical value
\* and the value the build computed
Evaluated(expr, a, c, wide) ==
    [expr |-> expr, operand |-> a, math |-> Product(a, c), got |-> IntProduct(a, c, wide)]

(***************************************************************************)
(* State.                                                                  *)
(***************************************************************************)
VARIABLES
    api,              \* the function the caller called
    in_seed,          \* pattern of the input array
    block_count,      \* argument block_count
    thread_hint,      \* argument num_threads as passed to the dispatcher
    available_cores,  \* sysconf(_SC_NPROCESSORS_ONLN)
    output_size,      \* argument output_size of aes_sm3_parallel (256 elsewhere)
    output_ptr,       \* address of the output buffer
    num_threads,      \* local num_threads after the cap; -1 before the dispatcher runs
    main_pc,          \* position of the calling thread
    main_i,           \* loop index i of the create and join loops
    created,          \* per thread: "unset", "ok" (pthread_create succeeded), "failed"
    worker_pc,        \* per thread: "idle", "loop", "copy", "wait", "exited"
    worker_i,         \* per thread: loop index i of thread_worker
    processed,        \* per thread: the indices its loop body has run for, in order
    wrote,            \* per thread: the intervals <<first, past-last>> of offsets it stored to
    arrived,          \* threads that have called pthread_barrier_wait
    mem,              \* memory from the start of the output buffer; -1 is never written
    hm,               \* one call of sm3_4kb_optimized: position, locals, calls made
    cm,               \* one call of sm3_compress_hw: position, locals
    calls,            \* the digest calls a caller has made so far, with what each returned
    fm,               \* aes_sm3_integrity_256bit called on an input and on an altered copy of it
    om                \* the int expressions a batch call has evaluated, with their values

vars == <<api, in_seed, block_count, thread_hint, available_cores, output_size,
          output_ptr, num_threads, main_pc, main_i, created, worker_pc, worker_i,
          processed, wrote, arrived, mem, hm, cm, calls, fm, om>>

args == <<api, in_seed, block_count, thread_hint, available_cores, output_size, output_ptr>>
workers == <<created, worker_pc, worker_i, processed, wrote, arrived>>
units == <<cm, calls, fm, om>>

HashIdle == [HashInit EXCEPT !.pc = "idle"]
CompressIdle == [CompressInit EXCEPT !.pc = "idle"]
\* no int expression evaluated yet
OffsetsIdle == [pc |-> "idle", evals |-> <<>>]
\* aes_sm3_integrity_256bit not called: neon whether the __ARM_FEATURE_CRYPTO
\* branch was compiled, i the index of the fold loop, ps and v the positions
\* of the altered bytes and the value xored into them, compressed and state
\* the locals of the call on the input, compressed2 and state2 those of the
\* call on the altered copy
FoldIdle == [pc |-> "idle", neon |-> FALSE, i |-> 0, ps |-> {}, v |-> 0,
             compressed |-> <<>>, compressed2 |-> <<>>, state |-> <<>>, state2 |-> <<>>]
Min(a, b) == IF a < b THEN a ELSE b

\* offset of aligned_output from the start of the buffer, for output = buffer + lo
AlignedOffset(lo) == AlignUp(output_ptr + lo) - output_ptr

(***************************************************************************)
(* The batch dispatchers: a call of sm3_4kb_parallel,                      *)
(* sm3_4kb_batch_optimized or aes_sm3_parallel.                            *)
(***************************************************************************)
Init ==
    /\ api \in {"sm3_4kb_parallel", "sm3_4kb_batch_optimized", "aes_sm3_parallel"}
    /\ in_seed \in Seeds
    /\ block_count \in 0..MaxBlocks
    /\ available_cores \in 1..MaxCores
    /\ thread_hint \in IF api = "sm3_4kb_batch_optimized" THEN {available_cores} ELSE ThreadHints
    /\ output_size \in IF api = "aes_sm3_parallel" THEN {128, 256} ELSE {256}
    /\ output_ptr \in IF api = "aes_sm3_parallel" THEN {16} ELSE OutputPtrs
    /\ num_threads = -1
    /\ main_pc = IF api = "sm3_4kb_batch_optimized" THEN "batch" ELSE "entry"
    /\ main_i = 0
    /\ created = [k \in Threads |-> "unset"]
    /\ worker_pc = [k \in Threads |-> "idle"]
    /\ worker_i = [k \in Threads |-> 0]
    /\ processed = [k \in Threads |-> <<>>]
    /\ wrote = [k \in Threads |-> {}]
    /\ arrived = 0
    /\ mem = [q \in 0..(MemSize - 1) |-> -1]
    /\ hm = HashIdle
    /\ cm = CompressIdle
    /\ calls = <<>>
    /\ fm = FoldIdle
    /\ om = OffsetsIdle

\* sm3_4kb_batch_optimized up to its call of sm3_4kb_parallel: malloc, the
\* early return on NULL (malloc(0) may return NULL as well), the padding loop
sm3_4kb_batch_optimized ==
    /\ main_pc = "batch"
    /\ \E padded_ok \in BOOLEAN :
          main_pc' = IF padded_ok THEN "entry" ELSE "done"
    /\ UNCHANGED <<args, units, num_threads, main_i, workers, mem, hm>>

\* sm3_4kb_parallel / aes_sm3_parallel up to the create loop: the cap to
\* available_cores, the two malloc calls, pthread_barrier_init.  Neither
\* malloc result is tested: when one is NULL the first iteration of the create
\* loop stores through it (thread_data[0].input = ..., or pthread_create
\* storing at &threads[0]) and the process faults; with num_threads = 0 the
\* loops do not run and a NULL is never used
sm3_4kb_parallel ==
    /\ main_pc = "entry"
    /\ num_threads' = Min(thread_hint, available_cores)
    /\ main_i' = 0
    /\ \E alloc_ok \in BOOLEAN :
          main_pc' = IF ~(0 < num_threads') THEN "destroy"
                     ELSE IF alloc_ok THEN "create" ELSE "null_deref"
    /\ UNCHANGED <<args, units, workers, mem, hm>>

\* one iteration of the create loop: thread_data[i] is filled and
\* pthread_create is called; its result is not looked at
pthread_create ==
    /\ main_pc = "create"
    /\ \E ok \in BOOLEAN :
          /\ created' = [created EXCEPT ![main_i] = IF ok THEN "ok" ELSE "failed"]
          /\ worker_pc' = [worker_pc EXCEPT ![main_i] = IF ok THEN "loop" ELSE @]
          /\ worker_i' = [worker_i EXCEPT ![main_i] =
                             IF ok THEN start_block(main_i, block_count, num_threads) ELSE @]
    /\ main_i' = IF main_i + 1 < num_threads THEN main_i + 1 ELSE 0
    /\ main_pc' = IF main_i + 1 < num_threads THEN "create" ELSE "join"
    /\ UNCHANGED <<args, units, num_threads, processed, wrote, arrived, mem, hm>>

\* the join loop is left after iteration tid when tid + 1 reaches nt
\* (JoinNext_skiplast: a join loop that stops one thread early)
JoinNext_skiplast(tid, nt) == IF tid + 1 < nt - 1 THEN "join" ELSE "destroy"
JoinNext(tid, nt) == IF tid + 1 < nt THEN "join" ELSE "destroy"

\* one iteration of the join loop on a thread that was created: pthread_join
\* returns once the thread has returned from thread_worker
pthread_join ==
    /\ main_pc = "join"
    /\ created[main_i] = "ok"
    /\ worker_pc[main_i] = "exited"
    /\ main_pc' = JoinNext(main_i, num_threads)
    /\ main_i' = IF main_pc' = "join" THEN main_i + 1 ELSE 0
    /\ UNCHANGED <<args, units, num_threads, workers, mem, hm>>

\* one iteration of the join loop on a pthread_t that pthread_create never
\* set (malloc memory): undefined; the call returns at once, crashes or blocks
pthread_join_unset ==
    /\ main_pc = "join"
    /\ created[main_i] = "failed"
    /\ \E outcome \in {"returns", "fault", "hung"} :
          main_pc' = IF outcome = "returns" THEN JoinNext(main_i, num_threads) ELSE outcome
    /\ main_i' = IF main_pc' = "join" THEN main_i + 1 ELSE 0
    /\ UNCHANGED <<args, units, num_threads, workers, mem, hm>>

\* pthread_barrier_destroy, free, free and the return; with num_threads = 0
\* pthread_barrier_init failed and the barrier destroyed was never initialised
pthread_barrier_destroy ==
    /\ main_pc = "destroy"
    /\ \E outcome \in IF num_threads = 0 THEN {"done", "fault"} ELSE {"done"} :
          main_pc' = outcome
    /\ UNCHANGED <<args, units, num_threads, main_i, workers, mem, hm>>

(***************************************************************************)
(* thread_worker, one thread per created pthread.                          *)
(***************************************************************************)
\* the 32 bytes sm3_4kb_optimized computes from data->input + i * 4096
WorkerDigest(i) ==
    IF api = "sm3_4kb_batch_optimized" THEN BatchDigest[in_seed][i] ELSE Sm3Digest[in_seed + i]

\* loop body of thread_worker in sm3_4kb_complete1.c up to the stores of
\* sm3_4kb_optimized: the digest of block i is stored at aligned_output; when
\* that is output_start the call is over and the loop goes on
thread_worker_hash(tid) ==
    /\ api \in {"sm3_4kb_parallel", "sm3_4kb_batch_optimized"}
    /\ worker_pc[tid] = "loop"
    /\ worker_i[tid] < end_block(tid, block_count, num_threads)
    /\ LET lo == AlignedOffset(32 * worker_i[tid])
       IN /\ mem' = StoreBytes(mem, lo, WorkerDigest(worker_i[tid]))
          /\ wrote' = [wrote EXCEPT ![tid] = @ \cup {<<lo, lo + 32>>}]
          /\ IF lo = 32 * worker_i[tid]
             THEN /\ worker_i' = [worker_i EXCEPT ![tid] = @ + 1]
                  /\ processed' = [processed EXCEPT ![tid] = Append(@, worker_i[tid])]
                  /\ UNCHANGED worker_pc
             ELSE /\ worker_pc' = [worker_pc EXCEPT ![tid] = "copy"]
                  /\ UNCHANGED <<worker_i, processed>>
    /\ UNCHANGED <<args, units, num_threads, main_pc, main_i, created, arrived, hm>>

\* the end of sm3_4kb_optimized when output != aligned_output:
\* memcpy(output, aligned_output, 32) on overlapping regions, then i++
thread_worker_copy(tid) ==
    /\ worker_pc[tid] = "copy"
    /\ LET lo == 32 * worker_i[tid]
       IN /\ \E fwd \in BOOLEAN :
                mem' = memcpy_overlap(mem, lo, AlignedOffset(lo) - lo, fwd)
          /\ wrote' = [wrote EXCEPT ![tid] = @ \cup {<<lo, lo + 32>>}]
    /\ worker_i' = [worker_i EXCEPT ![tid] = @ + 1]
    /\ processed' = [processed EXCEPT ![tid] = Append(@, worker_i[tid])]
    /\ worker_pc' = [worker_pc EXCEPT ![tid] = "loop"]
    /\ UNCHANGED <<args, units, num_threads, main_pc, main_i, created, arrived, hm>>

\* an output_start that takes every slot to be 32 bytes wide
aes_output_start_wide(i, size) == i * 32
\* "output_start = data->output + i * (data->output_size / 8)", as an offset
aes_output_start(i, size) == i * (size \div 8)

\* loop body of thread_worker in aes_sm3_integrity.c: the digest of message
\* i, 32 or 16 bytes, is stored at output + i * (output_size / 8)
aes_thread_worker_hash(tid) ==
    /\ api = "aes_sm3_parallel"
    /\ worker_pc[tid] = "loop"
    /\ worker_i[tid] < end_block(tid, block_count, num_threads)
    /\ LET lo == aes_output_start(worker_i[tid], output_size)
           b  == IF output_size = 256 THEN AesDigest[in_seed + worker_i[tid]]
                 ELSE SubSeq(AesDigest[in_seed + worker_i[tid]], 1, 16)
       IN /\ mem' = StoreBytes(mem, lo, b)
          /\ wrote' = [wrote EXCEPT ![tid] = @ \cup {<<lo, lo + Len(b)>>}]
    /\ worker_i' = [worker_i EXCEPT ![tid] = @ + 1]
    /\ processed' = [processed EXCEPT ![tid] = Append(@, worker_i[tid])]
    /\ UNCHANGED <<args, units, num_threads, main_pc, main_i, created, worker_pc, arrived, hm>>

\* the loop of thread_worker is over: pthread_barrier_wait is called
pthread_barrier_wait(tid) ==
    /\ worker_pc[tid] = "loop"
    /\ ~(worker_i[tid] < end_block(tid, block_count, num_threads))
    /\ arrived' = arrived + 1
    /\ worker_pc' = [worker_pc EXCEPT ![tid] = "wait"]
    /\ UNCHANGED <<args, units, num_threads, main_pc, main_i, created, worker_i, processed,
                   wrote, mem, hm>>

\* a barrier that also counts the calling thread, which never waits at it
BarrierCount_withmain(nt) == nt + 1
\* the count given to pthread_barrier_init(&barrier, NULL, num_threads)
BarrierCount(nt) == nt

\* pthread_barrier_wait returns once as many threads have called it as the
\* barrier was initialised for, and thread_worker returns
thread_worker_return(tid) ==
    /\ worker_pc[tid] = "wait"
    /\ arrived = BarrierCount(num_threads)
    /\ worker_pc' = [worker_pc EXCEPT ![tid] = "exited"]
    /\ UNCHANGED <<args, units, num_threads, main_pc, main_i, created, worker_i, processed,
                   wrote, arrived, mem, hm>>

Next ==
    \/ sm3_4kb_batch_optimized
    \/ sm3_4kb_parallel
    \/ pthread_create
    \/ pthread_join
    \/ pthread_join_unset
    \/ pthread_barrier_destroy
    \/ \E tid \in Threads : thread_worker_hash(tid)
    \/ \E tid \in Threads : thread_worker_copy(tid)
    \/ \E tid \in Threads : aes_thread_worker_hash(tid)
    \/ \E tid \in Threads : pthread_barrier_wait(tid)
    \/ \E tid \in Threads : thread_worker_return(tid)

Spec == Init /\ [][Next]_vars

\* the calling thread and every created worker thread are scheduled again
\* and again while they can take a step
MainStep ==
    \/ sm3_4kb_batch_optimized
    \/ sm3_4kb_parallel
    \/ pthread_create
    \/ pthread_join
    \/ pthread_join_unset
    \/ pthread_barrier_destroy
WorkerStep(tid) ==
    \/ thread_worker_hash(tid)
    \/ thread_worker_copy(tid)
    \/ aes_thread_worker_hash(tid)
    \/ pthread_barrier_wait(tid)
    \/ thread_worker_return(tid)
Fairness == WF_vars(MainStep) /\ \A tid \in Threads : WF_vars(WorkerStep(tid))

SpecLive == Init /\ [][Next]_vars /\ Fairness

(***************************************************************************)
(* One call sm3_4kb_optimized(input, output), statement by statement.      *)
(***************************************************************************)
InitHash ==
    /\ api = "sm3_4kb_optimized"
    /\ in_seed \in Seeds
    /\ block_count = 1
    /\ thread_hint = 0
    /\ available_cores = 1
    /\ output_size = 256
    /\ output_ptr \in OutputPtrs
    /\ num_threads = -1
    /\ main_pc = "call"
    /\ main_i = 0
    /\ created = [k \in Threads |-> "unset"]
    /\ worker_pc = [k \in Threads |-> "idle"]
    /\ worker_i = [k \in Threads |-> 0]
    /\ processed = [k \in Threads |-> <<>>]
    /\ wrote = [k \in Threads |-> {}]
    /\ arrived = 0
    /\ mem = [q \in 0..(MemSize - 1) |-> -1]
    /\ hm = HashInit
    /\ cm = CompressIdle
    /\ calls = <<>>
    /\ fm = FoldIdle
    /\ om = OffsetsIdle

\* byte q of padded_data after sm3_padding_4kb(padded_data, input)
PaddedData == [q \in 0..4159 |-> sm3_padding_4kb(Message(in_seed), q)]

\* the next loop test or loop body of the block loops
sm3_4kb_optimized_step ==
    /\ main_pc = "call"
    /\ hm.pc \in {"outer", "inner1", "inner2"}
    /\ hm' = HashStep(hm, PaddedData)
    /\ UNCHANGED <<args, units, num_threads, main_pc, main_i, workers, mem>>

\* the eight stores of bswap32(state[i]) at aligned_output
sm3_4kb_optimized_store ==
    /\ main_pc = "call"
    /\ hm.pc = "output"
    /\ mem' = StoreBytes(mem, AlignedOffset(0), DigestBytes[hm.state])
    /\ IF AlignedOffset(0) = 0
       THEN /\ hm' = [hm EXCEPT !.pc = "done"]
            /\ main_pc' = "done"
       ELSE /\ hm' = [hm EXCEPT !.pc = "copy"]
            /\ UNCHANGED main_pc
    /\ UNCHANGED <<args, units, num_threads, main_i, workers>>

\* memcpy(output, aligned_output, 32) when output != aligned_output
sm3_4kb_optimized_copy ==
    /\ main_pc = "call"
    /\ hm.pc = "copy"
    /\ \E fwd \in BOOLEAN : mem' = memcpy_overlap(mem, 0, AlignedOffset(0), fwd)
    /\ hm' = [hm EXCEPT !.pc = "done"]
    /\ main_pc' = "done"
    /\ UNCHANGED <<args, units, num_threads, main_i, workers>>

NextHash ==
    \/ sm3_4kb_optimized_step
    \/ sm3_4kb_optimized_store
    \/ sm3_4kb_optimized_copy

SpecHash == InitHash /\ [][NextHash]_vars

(***************************************************************************)
(* One call sm3_compress_hw(state, block) of either file, statement by     *)
(* statement, on a block of a message or on the one block of "abc".        *)
(***************************************************************************)
\* the 3-byte message "abc" padded to one block: 0x80, zeros, the bit length 24
AbcBytes ==
    [q \in 0..63 |-> CASE q = 0 -> 97 [] q = 1 -> 98 [] q = 2 -> 99 [] q = 3 -> 128
                        [] q = 63 -> 3 * 8 [] OTHER -> 0]
BlockNames == {"abc", "first", "last"}
\* the 64 bytes of the named block for the message with pattern s: the first
\* block of the message, the last block of its padded_data
BlockBytes(name, s) ==
    CASE name = "abc" -> AbcBytes
      [] name = "first" -> [q \in 0..63 |-> MsgByte(s, q)]
      [] OTHER -> [q \in 0..63 |-> sm3_padding_4kb(Message(s), 4096 + q)]
\* the block argument as the callers of each file pass it: the words as
\* memcpy loads them (file 1), byte-swapped by the caller (file 2)
BlockArg(file, name, s) ==
    IF file = 1 THEN input_block(BlockBytes(name, s), 0) ELSE sm3_4kb_block(BlockBytes(name, s), 0)

InitCompress ==
    /\ api = "sm3_compress_hw"
    /\ in_seed \in Seeds
    /\ block_count = 1
    /\ thread_hint = 0
    /\ available_cores = 1
    /\ output_size = 256
    /\ output_ptr = 16
    /\ num_threads = -1
    /\ main_pc = "call"
    /\ main_i = 0
    /\ created = [k \in Threads |-> "unset"]
    /\ worker_pc = [k \in Threads |-> "idle"]
    /\ worker_i = [k \in Threads |-> 0]
    /\ processed = [k \in Threads |-> <<>>]
    /\ wrote = [k \in Threads |-> {}]
    /\ arrived = 0
    /\ mem = [q \in 0..(MemSize - 1) |-> -1]
    /\ hm = HashIdle
    /\ calls = <<>>
    /\ fm = FoldIdle
    /\ om = OffsetsIdle
    /\ \E file \in {1, 2}, asm \in BOOLEAN, alias \in BOOLEAN, garbage \in Garbage,
          name \in BlockNames, st \in {SM3_IV, Sm3State[in_seed]} :
          /\ file = 2 => ~asm
          /\ ~asm => (~alias /\ garbage = <<0, 0>>)
          /\ cm = [CompressInit EXCEPT !.file = file, !.asm = asm, !.alias = alias,
                                       !.garbage = garbage, !.state = st, !.r = st,
                                       !.block = BlockArg(file, name, in_seed)]

\* file 1: W[0..15] = __builtin_bswap32(block[0..15])
sm3_compress_hw_load ==
    /\ cm.file = 1 /\ cm.pc = "load"
    /\ cm' = [cm EXCEPT !.W = LoadW[cm.block], !.pc = "expand", !.j = 16]
    /\ UNCHANGED <<args, num_threads, main_pc, main_i, workers, mem, hm, calls, fm, om>>

\* file 1: one iteration of "for (j = 16; j < 68; j++)"
sm3_compress_hw_expand ==
    /\ cm.file = 1 /\ cm.pc = "expand" /\ cm.j < 68
    /\ cm' = [cm EXCEPT !.W = ExpandStep(cm.W, cm.j),
                        !.j = IF cm.j + 1 < 68 THEN cm.j + 1 ELSE 0,
                        !.pc = IF cm.j + 1 < 68 THEN "expand" ELSE "wprime"]
    /\ UNCHANGED <<args, num_threads, main_pc, main_i, workers, mem, hm, calls, fm, om>>

\* file 1: one iteration of "for (j = 0; j < 64; j++) W_[j] = W[j] ^ W[j+4]";
\* after the last one A..H are loaded from state
sm3_compress_hw_wprime ==
    /\ cm.file = 1 /\ cm.pc = "wprime" /\ cm.j < 64
    /\ cm' = [cm EXCEPT !.V = Append(cm.V, Xor[cm.W[cm.j + 1], cm.W[cm.j + 5]]),
                        !.j = IF cm.j + 1 < 64 THEN cm.j + 1 ELSE 0,
                        !.pc = IF cm.j + 1 < 64 THEN "wprime" ELSE "rounds",
                        !.r = cm.state]
    /\ UNCHANGED <<args, num_threads, main_pc, main_i, workers, mem, hm, calls, fm, om>>

\* file 1: one iteration of the main loop, software branch
sm3_compress_hw_round ==
    /\ cm.file = 1 /\ cm.pc = "rounds" /\ ~cm.asm /\ cm.j < 64
    /\ cm' = [DoRound[cm] EXCEPT !.j = cm.j + 1,
                                 !.pc = IF cm.j + 1 < 64 THEN "rounds" ELSE "final"]
    /\ UNCHANGED <<args, num_threads, main_pc, main_i, workers, mem, hm, calls, fm, om>>

\* file 1: one iteration of the main loop, inline-assembly branch
sm3_compress_hw_round_asm ==
    /\ cm.file = 1 /\ cm.pc = "rounds" /\ cm.asm /\ cm.j < 64
    /\ cm' = [DoRound[cm] EXCEPT !.j = cm.j + 1,
                                 !.pc = IF cm.j + 1 < 64 THEN "rounds" ELSE "final"]
    /\ UNCHANGED <<args, num_threads, main_pc, main_i, workers, mem, hm, calls, fm, om>>

\* file 1: state[i] = original_state[i] ^ (A .. H)
sm3_compress_hw_final ==
    /\ cm.file = 1 /\ cm.pc = "final"
    /\ cm' = [cm EXCEPT !.state = FinalXor[cm.state, cm.r], !.pc = "done"]
    /\ UNCHANGED <<args, num_threads, main_pc, main_i, workers, mem, hm, calls, fm, om>>

\* file 2: W[0..15] = block[0..15]
aes_sm3_compress_hw_load ==
    /\ cm.file = 2 /\ cm.pc = "load"
    /\ cm' = [cm EXCEPT !.W = [j \in 1..16 |-> cm.block[j]], !.pc = "expand", !.j = 16]
    /\ UNCHANGED <<args, num_threads, main_pc, main_i, workers, mem, hm, calls, fm, om>>

\* file 2: one iteration of "for (j = 16; j < 68; j += 4)"
aes_sm3_compress_hw_expand ==
    /\ cm.file = 2 /\ cm.pc = "expand" /\ cm.j < 68
    /\ cm' = [cm EXCEPT !.W = aes_ExpandStep(cm.W, (cm.j - 16) \div 4),
                        !.j = IF cm.j + 4 < 68 THEN cm.j + 4 ELSE 0,
                        !.pc = IF cm.j + 4 < 68 THEN "expand" ELSE "wprime"]
    /\ UNCHANGED <<args, num_threads, main_pc, main_i, workers, mem, hm, calls, fm, om>>

\* file 2: one iteration of "for (j = 0; j < 64; j += 4)" on W_; after the
\* last one A..H are loaded from A0..H0
aes_sm3_compress_hw_wprime ==
    /\ cm.file = 2 /\ cm.pc = "wprime" /\ cm.j < 64
    /\ cm' = [cm EXCEPT !.V = aes_WPrimeStep(cm.W, cm.V, cm.j \div 4),
                        !.j = IF cm.j + 4 < 64 THEN cm.j + 4 ELSE 0,
                        !.pc = IF cm.j + 4 < 64 THEN "wprime" ELSE "rounds_low",
                        !.r = cm.state]
    /\ UNCHANGED <<args, num_threads, main_pc, main_i, workers, mem, hm, calls, fm, om>>

\* file 2: one iteration of "for (j = 0; j < 16; j += 4)": four rounds
aes_sm3_compress_hw_rounds_low ==
    /\ cm.file = 2 /\ cm.pc = "rounds_low" /\ cm.j < 16
    /\ cm' = [aes_rounds_low_body(cm)
                 EXCEPT !.j = cm.j + 4,
                        !.pc = IF cm.j + 4 < 16 THEN "rounds_low" ELSE "rounds_high"]
    /\ UNCHANGED <<args, num_threads, main_pc, main_i, workers, mem, hm, calls, fm, om>>

\* file 2: one iteration of "for (j = 16; j < 64; j += 2)": two rounds
aes_sm3_compress_hw_rounds_high ==
    /\ cm.file = 2 /\ cm.pc = "rounds_high" /\ cm.j < 64
    /\ cm' = [aes_DoRound[aes_DoRound[cm, 0, FALSE], 1, FALSE]
                 EXCEPT !.j = cm.j + 2,
                        !.pc = IF cm.j + 2 < 64 THEN "rounds_high" ELSE "final"]
    /\ UNCHANGED <<args, num_threads, main_pc, main_i, workers, mem, hm, calls, fm, om>>

\* file 2: state[i] = A0..H0 ^ (A .. H)
aes_sm3_compress_hw_final ==
    /\ cm.file = 2 /\ cm.pc = "final"
    /\ cm' = [cm EXCEPT !.state = FinalXor[cm.state, cm.r], !.pc = "done"]
    /\ UNCHANGED <<args, num_threads, main_pc, main_i, workers, mem, hm, calls, fm, om>>

NextCompress ==
    \/ sm3_compress_hw_load
    \/ sm3_compress_hw_expand
    \/ sm3_compress_hw_wprime
    \/ sm3_compress_hw_round
    \/ sm3_compress_hw_round_asm
    \/ sm3_compress_hw_final
    \/ aes_sm3_compress_hw_load
    \/ aes_sm3_compress_hw_expand
    \/ aes_sm3_compress_hw_wprime
    \/ aes_sm3_compress_hw_rounds_low
    \/ aes_sm3_compress_hw_rounds_high
    \/ aes_sm3_compress_hw_final

SpecCompress == InitCompress /\ [][NextCompress]_vars

(***************************************************************************)
(* A caller making digest calls one after the other: the single-message    *)
(* functions of both files, each call a whole function.  The build fixes   *)
(* how memcpy copies overlapping regions: every call of one behaviour      *)
(* copies the same way.                                                    *)
(***************************************************************************)
DigestFunctions == {"sm3_4kb_optimized", "sm3_4kb_128bit", "sm3_4kb_traditional",
                    "sm3_4kb", "aes_sm3_integrity_256bit", "aes_sm3_integrity_128bit"}

\* memory from the start of the output buffer, nothing stored yet
Blank == [q \in 0..(MemSize - 1) |-> -1]

\* memory after the output stage of sm3_4kb_optimized with output at address
\* ptr: the stores at aligned_output, then the copy back when they differ
OptimizedOutput(st, ptr, fwd) ==
    IF AlignUp(ptr) = ptr THEN StoreBytes(Blank, 0, DigestBytes[st])
    ELSE memcpy_overlap(StoreBytes(Blank, AlignUp(ptr) - ptr, DigestBytes[st]),
                        0, AlignUp(ptr) - ptr, fwd)

\* the first n bytes at the start of memory m
Bytes(m, n) == [k \in 1..n |-> m[k - 1]]

\* how the call copied back: not at all, or in one of the two directions
CopyOf(ptr, fwd) == IF AlignUp(ptr) = ptr THEN "none" ELSE IF fwd THEN "fwd" ELSE "bwd"
\* the build copies overlapping regions the way dir says in every call so far
SameBuild(dir) == \A k \in 1..Len(calls) : calls[k].copy \in {"none", dir}

InitCalls ==
    /\ api = "none"
    /\ in_seed = 0
    /\ block_count = 1
    /\ thread_hint = 0
    /\ available_cores = 1
    /\ output_size = 256
    /\ output_ptr = 16
    /\ num_threads = -1
    /\ main_pc = "caller"
    /\ main_i = 0
    /\ created = [k \in Threads |-> "unset"]
    /\ worker_pc = [k \in Threads |-> "idle"]
    /\ worker_i = [k \in Threads |-> 0]
    /\ processed = [k \in Threads |-> <<>>]
    /\ wrote = [k \in Threads |-> {}]
    /\ arrived = 0
    /\ mem = Blank
    /\ hm = HashIdle
    /\ cm = CompressIdle
    /\ calls = <<>>
    /\ fm = FoldIdle
    /\ om = OffsetsIdle

\* the caller's variables after a call of fn on message s with its output (for
\* sm3_4kb_128bit: its temp_output) at ptr, m the memory the call leaves
Called(fn, s, ptr, dir, st, m, n) ==
    /\ api' = fn
    /\ in_seed' = s
    /\ output_ptr' = ptr
    /\ output_size' = 8 * n
    /\ mem' = m
    /\ calls' = Append(calls, [fn |-> fn, seed |-> s, ptr |-> ptr, copy |-> dir,
                               state |-> st, out |-> Bytes(m, n)])
    /\ UNCHANGED <<block_count, thread_hint, available_cores, num_threads, main_pc,
                   main_i, workers, hm, cm, fm, om>>

\* sm3_4kb_optimized(input, output)
call_sm3_4kb_optimized ==
    /\ Len(calls) < MaxCalls
    /\ \E s \in Seeds, ptr \in OutputPtrs, fwd \in BOOLEAN :
          /\ AlignUp(ptr) = ptr => fwd
          /\ SameBuild(CopyOf(ptr, fwd))
          /\ Called("sm3_4kb_optimized", s, ptr, CopyOf(ptr, fwd), Sm3State[s],
                    OptimizedOutput(Sm3State[s], ptr, fwd), 32)

\* sm3_4kb_128bit(input, output): sm3_4kb_optimized(input, temp_output) with the
\* local temp_output[32] at address ptr, then memcpy(output, temp_output, 16)
call_sm3_4kb_128bit ==
    /\ Len(calls) < MaxCalls
    /\ \E s \in Seeds, ptr \in OutputPtrs, fwd \in BOOLEAN :
          /\ AlignUp(ptr) = ptr => fwd
          /\ SameBuild(CopyOf(ptr, fwd))
          /\ Called("sm3_4kb_128bit", s, ptr, CopyOf(ptr, fwd), Sm3State[s],
                    StoreBytes(Blank, 0, Bytes(OptimizedOutput(Sm3State[s], ptr, fwd), 16)), 16)

\* sm3_4kb_traditional(input, output): the eight stores at output + i * 4
call_sm3_4kb_traditional ==
    /\ Len(calls) < MaxCalls
    /\ \E s \in Seeds, ptr \in OutputPtrs :
          Called("sm3_4kb_traditional", s, ptr, "none", TraditionalState[s],
                 StoreBytes(Blank, 0, DigestBytes[TraditionalState[s]]), 32)

\* sm3_4kb(input, output) of aes_sm3_integrity.c: out32[0..7]
call_sm3_4kb ==
    /\ Len(calls) < MaxCalls
    /\ \E s \in Seeds, ptr \in OutputPtrs :
          Called("sm3_4kb", s, ptr, "none", Sm3_4kbState[s],
                 StoreBytes(Blank, 0, DigestBytes[Sm3_4kbState[s]]), 32)

\* aes_sm3_integrity_256bit(input, output): out32[0..7]
call_aes_sm3_integrity_256bit ==
    /\ Len(calls) < MaxCalls
    /\ \E s \in Seeds, ptr \in OutputPtrs :
          Called("aes_sm3_integrity_256bit", s, ptr, "none", AesState[s],
                 StoreBytes(Blank, 0, aes_sm3_integrity_256bit[Message(s)]), 32)

\* aes_sm3_integrity_128bit(input, output): the 256-bit call on the local
\* full_hash, then memcpy(output, full_hash, 16)
call_aes_sm3_integrity_128bit ==
    /\ Len(calls) < MaxCalls
    /\ \E s \in Seeds, ptr \in OutputPtrs :
          Called("aes_sm3_integrity_128bit", s, ptr, "none", AesState[s],
                 StoreBytes(Blank, 0, aes_sm3_integrity_128bit[Message(s)]), 16)

NextCalls ==
    \/ call_sm3_4kb_optimized
    \/ call_sm3_4kb_128bit
    \/ call_sm3_4kb_traditional
    \/ call_sm3_4kb
    \/ call_aes_sm3_integrity_256bit
    \/ call_aes_sm3_integrity_128bit

SpecCalls == InitCalls /\ [][NextCalls]_vars

(***************************************************************************)
(* aes_sm3_integrity_256bit run side by side on a message and on a copy    *)
(* of it with one byte, or two bytes 8 apart, altered: the fold loop of    *)
(* either branch, iteration by iteration, then the SM3 stage.              *)
(***************************************************************************)
\* 128-byte groups in which bytes are altered
AlteredGroups == {0, 31}
\* one bit of one byte flipped
Flips == {[ps |-> {128 * g + o}, v |-> 2^b] :
             g \in AlteredGroups, o \in 0..(MaxOffset - 1), b \in 0..7}
\* the same value xored into two bytes 8 apart in one group
Pairs == {[ps |-> {128 * g + o, 128 * g + o + 8}, v |-> v] :
             g \in AlteredGroups, o \in 0..(MaxOffset - 1), v \in {1, 255}}

\* the message with pattern s with v xored into the bytes at the positions ps
Altered(s, ps, v) ==
    [q \in 0..4095 |-> IF q \in ps THEN Xor8(MsgByte(s, q), v) ELSE MsgByte(s, q)]

InitFold ==
    /\ api = "aes_sm3_integrity_256bit"
    /\ in_seed \in Seeds
    /\ block_count = 1
    /\ thread_hint = 0
    /\ available_cores = 1
    /\ output_size = 256
    /\ output_ptr = 16
    /\ num_threads = -1
    /\ main_pc = "call"
    /\ main_i = 0
    /\ created = [k \in Threads |-> "unset"]
    /\ worker_pc = [k \in Threads |-> "idle"]
    /\ worker_i = [k \in Threads |-> 0]
    /\ processed = [k \in Threads |-> <<>>]
    /\ wrote = [k \in Threads |-> {}]
    /\ arrived = 0
    /\ mem = Blank
    /\ hm = HashIdle
    /\ cm = CompressIdle
    /\ calls = <<>>
    /\ om = OffsetsIdle
    /\ \E neon \in BOOLEAN, a \in Flips \cup Pairs :
          fm = [FoldIdle EXCEPT !.pc = "fold", !.neon = neon, !.ps = a.ps, !.v = a.v]

\* software branch: one iteration of "for (i = 0; i < 32; i++)", out[0..7]
aes_sm3_integrity_256bit_fold ==
    /\ fm.pc = "fold" /\ ~fm.neon /\ fm.i < 32
    /\ fm' = [fm EXCEPT
                 !.compressed = @ \o aes_fold_group(Message(in_seed), fm.i, FALSE),
                 !.compressed2 = @ \o aes_fold_group(Altered(in_seed, fm.ps, fm.v), fm.i, FALSE),
                 !.i = fm.i + 1,
                 !.pc = IF fm.i + 1 < 32 THEN "fold" ELSE "hash"]
    /\ UNCHANGED <<args, num_threads, main_pc, main_i, workers, mem, hm, cm, calls, om>>

\* __ARM_FEATURE_CRYPTO branch: one iteration of "for (i = 0; i < 32; i += 2)",
\* the groups i and i + 1
aes_sm3_integrity_256bit_fold_neon ==
    /\ fm.pc = "fold" /\ fm.neon /\ fm.i < 32
    /\ fm' = [fm EXCEPT
                 !.compressed = @ \o aes_fold_group(Message(in_seed), fm.i, TRUE)
                                  \o aes_fold_group(Message(in_seed), fm.i + 1, TRUE),
                 !.compressed2 = @ \o aes_fold_group(Altered(in_seed, fm.ps, fm.v), fm.i, TRUE)
                                   \o aes_fold_group(Altered(in_seed, fm.ps, fm.v), fm.i + 1, TRUE),
                 !.i = fm.i + 2,
                 !.pc = IF fm.i + 2 < 32 THEN "fold" ELSE "hash"]
    /\ UNCHANGED <<args, num_threads, main_pc, main_i, workers, mem, hm, cm, calls, om>>

\* the second stage: SM3 over the four blocks of compressed, from SM3_IV
aes_sm3_integrity_256bit_hash ==
    /\ fm.pc = "hash"
    /\ fm' = [fm EXCEPT !.state = aes_sm3_state_of[fm.compressed],
                        !.state2 = aes_sm3_state_of[fm.compressed2],
                        !.pc = "done"]
    /\ UNCHANGED <<args, num_threads, main_pc, main_i, workers, mem, hm, cm, calls, om>>

NextFold ==
    \/ aes_sm3_integrity_256bit_fold
    \/ aes_sm3_integrity_256bit_fold_neon
    \/ aes_sm3_integrity_256bit_hash

SpecFold == InitFold /\ [][NextFold]_vars

(***************************************************************************)
(* The int expressions of a batch call on a large block_count: the size    *)
(* given to malloc and the offsets of the padding loop in                  *)
(* sm3_4kb_batch_optimized, the offsets of thread_worker.                  *)
(***************************************************************************)
\* values of block_count: small ones, and those around which 4160 * n, 4096 * i
\* and 32 * i pass 2^31 and 2^32
BlockCounts == {0, 1, 2, 516222, 516223, 524288, 524289, 1032444, 1032445,
                1048576, 67108864, 67108865, 2147483647}
\* the indices of a loop "for (i = 0; i < n; i++)" that are looked at
LoopIndices(n) == {i \in {0, 1, n \div 2, n - 2, n - 1} : 0 <= i /\ i < n}

InitOffsets ==
    /\ api \in {"sm3_4kb_batch_optimized", "sm3_4kb_parallel"}
    /\ in_seed = 0
    /\ block_count \in BlockCounts
    /\ thread_hint = 1
    /\ available_cores = 1
    /\ output_size = 256
    /\ output_ptr = 16
    /\ num_threads = -1
    /\ main_pc = "call"
    /\ main_i = 0
    /\ created = [k \in Threads |-> "unset"]
    /\ worker_pc = [k \in Threads |-> "idle"]
    /\ worker_i = [k \in Threads |-> 0]
    /\ processed = [k \in Threads |-> <<>>]
    /\ wrote = [k \in Threads |-> {}]
    /\ arrived = 0
    /\ mem = Blank
    /\ hm = HashIdle
    /\ cm = CompressIdle
    /\ calls = <<>>
    /\ fm = FoldIdle
    /\ om = [OffsetsIdle EXCEPT !.pc = IF api = "sm3_4kb_batch_optimized" THEN "malloc" ELSE "worker"]

\* "malloc(4160 * block_count)"
batch_malloc_size ==
    /\ om.pc = "malloc"
    /\ \E wide \in BOOLEAN :
          om' = [om EXCEPT !.evals = Append(@, Evaluated("4160 * block_count", block_count, 4160, wide)),
                           !.pc = IF block_count > 0 THEN "pad" ELSE "worker"]
    /\ UNCHANGED <<args, num_threads, main_pc, main_i, workers, mem, hm, cm, calls, fm>>

\* iteration i of the padding loop: "padded_buffer + i * 4160, input + i * 4096"
batch_pad_offsets ==
    /\ om.pc = "pad"
    /\ \E i \in LoopIndices(block_count), wide \in BOOLEAN :
          om' = [om EXCEPT !.evals = @ \o <<Evaluated("i * 4160", i, 4160, wide),
                                            Evaluated("i * 4096", i, 4096, wide)>>,
                           !.pc = "worker"]
    /\ UNCHANGED <<args, num_threads, main_pc, main_i, workers, mem, hm, cm, calls, fm>>

\* iteration i of the loop of thread_worker: "data->input + i * 4096,
\* data->output + i * 32"
worker_offsets ==
    /\ om.pc = "worker"
    /\ IF block_count > 0
       THEN \E i \in LoopIndices(block_count), wide \in BOOLEAN :
               om' = [om EXCEPT !.evals = @ \o <<Evaluated("i * 4096", i, 4096, wide),
                                                 Evaluated("i * 32", i, 32, wide)>>,
                                !.pc = "done"]
       ELSE om' = [om EXCEPT !.pc = "done"]
    /\ UNCHANGED <<args, num_threads, main_pc, main_i, workers, mem, hm, cm, calls, fm>>

NextOffsets ==
    \/ batch_malloc_size
    \/ batch_pad_offsets
    \/ worker_offsets

SpecOffsets == InitOffsets /\ [][NextOffsets]_vars

(***************************************************************************)
(* Properties.                                                             *)
(***************************************************************************)
Returned == main_pc = "done"
\* pthread_create calls made so far
CreateCalls == Cardinality({k \in Threads : created[k] # "unset"})
AnyCreateFailed == \E k \in Threads : created[k] = "failed"
AllCreated == \A k \in 0..(num_threads - 1) : created[k] = "ok"
AllExited == \A k \in 0..(num_threads - 1) : worker_pc[k] = "exited"
SlotBytes(i) == [k \in 1..(output_size \div 8) |-> mem[i * (output_size \div 8) + k - 1]]
SlotWritten(i) == \A k \in 1..(output_size \div 8) : SlotBytes(i)[k] # -1
NothingWritten == \A q \in DOMAIN mem : mem[q] = -1
\* the digest the single-message function returns for message i of the array
ExpectedSlot(i) ==
    IF api = "aes_sm3_parallel"
    THEN SubSeq(AesDigest[in_seed + i], 1, output_size \div 8)
    ELSE Sm3Digest[in_seed + i]

\* C1: after sm3_4kb_parallel(input, output, N, thread_hint) has returned, for
\* thread_hint in {1,2,4,8} and every N >= 0, output bytes [32i, 32i+32) are the
\* digest sm3_4kb_optimized computes for message i alone, for every i < N.
C1_ParallelEqualsSingle ==
    (api = "sm3_4kb_parallel" /\ thread_hint \in {1, 2, 4, 8} /\ Returned)
        => \A i \in 0..(block_count - 1) : SlotBytes(i) = Sm3Digest[in_seed + i]

\* C2: during sm3_4kb_parallel every store of the worker that owns the indices
\* [start, end) lies inside output bytes [32*start, 32*end), whatever the
\* address of the output buffer, so stores of two workers never overlap.
C2_WorkerWritesOwnSlots ==
    api = "sm3_4kb_parallel" =>
        /\ \A tid \in Threads : \A iv \in wrote[tid] :
              /\ 32 * start_block(tid, block_count, num_threads) <= iv[1]
              /\ iv[2] <= 32 * end_block(tid, block_count, num_threads)
        /\ \A tid \in Threads : \A other \in Threads \ {tid} :
              \A iv \in wrote[tid] : \A jv \in wrote[other] :
                  iv[2] <= jv[1] \/ jv[2] <= iv[1]

\* C3: when every pthread_create succeeded and num_threads >= 1, the dispatcher
\* has returned only if every worker has returned from thread_worker (so that
\* it was joined) and every digest slot 0..N-1 has been written.
C3_ReturnsAfterJoinAndWrites ==
    (Returned /\ num_threads >= 1 /\ AllCreated)
        => AllExited /\ \A i \in 0..(block_count - 1) : SlotWritten(i)

\* a call with two workers or more, all created, has returned with MaxBlocks digests
C3_Witness ==
    Returned /\ num_threads >= 2 /\ AllCreated /\ block_count = MaxBlocks /\ SlotWritten(MaxBlocks - 1)

\* C4: a call in which pthread_create failed for some worker never returns
\* normally: the caller is told of the failure.
C4_CreateFailureNotSilent == AnyCreateFailed => ~Returned

\* C5: once the create loop of sm3_4kb_parallel / aes_sm3_parallel is over, the
\* number of threads it asked pthread_create for is min(thread_hint,
\* available_cores, N).
C5_ThreadCountIsMin ==
    (api \in {"sm3_4kb_parallel", "aes_sm3_parallel"} /\ main_pc \in {"join", "destroy", "done"})
        => CreateCalls = Min(Min(thread_hint, available_cores), block_count)

\* C6: for N > 0 and every thread_hint >= 0, 0 included, a batch call that has
\* returned spawned at least one worker and left all N digests written.
C6_WorkerForEveryHint ==
    (api \in {"sm3_4kb_parallel", "aes_sm3_parallel"} /\ block_count > 0 /\ Returned)
        => CreateCalls >= 1 /\ \A i \in 0..(block_count - 1) : SlotWritten(i)

\* C7: for N = 0, sm3_4kb_parallel and sm3_4kb_batch_optimized spawn no thread
\* and write no output byte.
C7_EmptyBatchSpawnsNothing ==
    (api \in {"sm3_4kb_parallel", "sm3_4kb_batch_optimized"} /\ block_count = 0)
        => CreateCalls = 0 /\ NothingWritten

\* the indices the claim gives worker tid of nt workers on bc messages
C8_Range(tid, bc, nt) ==
    IF tid < nt - 1 THEN (tid * (bc \div nt))..((tid + 1) * (bc \div nt) - 1)
    ELSE ((nt - 1) * (bc \div nt))..(bc - 1)

\* C8: with t >= 1 workers on N messages, worker k < t-1 processes exactly the
\* indices [k*floor(N/t), (k+1)*floor(N/t)) in ascending order and the last
\* worker [(t-1)*floor(N/t), N); once all t workers are through their loops,
\* every index of 0..N-1 has been processed exactly once, by one worker.
C8_ContiguousPartition ==
    /\ \A tid \in Threads : created[tid] = "ok" =>
          /\ \A k \in 1..Len(processed[tid]) :
                /\ processed[tid][k] \in C8_Range(tid, block_count, num_threads)
                /\ processed[tid][k] = (tid * (block_count \div num_threads)) + k - 1
          /\ worker_pc[tid] \in {"wait", "exited"} =>
                Len(processed[tid]) = Cardinality(C8_Range(tid, block_count, num_threads))
    /\ (num_threads >= 1 /\ AllCreated /\ \A tid \in 0..(num_threads - 1) : worker_pc[tid] \in {"wait", "exited"})
          => \A i \in 0..(block_count - 1) :
                Cardinality({<<tid, k>> \in Threads \X (1..MaxBlocks) :
                                k <= Len(processed[tid]) /\ processed[tid][k] = i}) = 1

\* two workers on three messages are through: the last took the remainder
C8_Witness ==
    /\ num_threads = 2 /\ block_count = 3 /\ AllCreated /\ AllExited
    /\ processed[0] = <<0>> /\ processed[1] = <<1, 2>>

\* C9: for a fixed input array the output array of a batch call that has
\* returned is the same for every thread count t >= 1 and every scheduling of
\* its t workers: slot i holds the digest of message i.
C9_OutputIndependentOfThreads ==
    (api \in {"sm3_4kb_parallel", "aes_sm3_parallel"} /\ Returned /\ num_threads >= 1 /\ AllCreated)
        => \A i \in 0..(block_count - 1) : SlotBytes(i) = ExpectedSlot(i)

\* C10: sm3_4kb_optimized starts from SM3_IV and calls sm3_compress_hw on the
\* blocks 0, 1, ..., 64 of padded_data in this order, each once and 65 times in
\* all, every call on the state the call before left; no block index reaches
\* 65 and no read goes past the 4160 bytes.
C10_BlocksInOrder ==
    api = "sm3_4kb_optimized" =>
        /\ Len(hm.calls) <= 65
        /\ ~hm.oob
        /\ \A k \in 1..Len(hm.calls) :
              /\ hm.calls[k].blk = k - 1
              /\ hm.calls[k].blk < 65
              /\ hm.calls[k].sin = IF k = 1 THEN SM3_IV ELSE hm.calls[k - 1].sout
        /\ hm.state = IF hm.calls = <<>> THEN SM3_IV ELSE hm.calls[Len(hm.calls)].sout
        /\ hm.pc \in {"output", "copy", "done"} => Len(hm.calls) = 65

\* the block loops of one call are over after the call on block 64
C10_Witness ==
    api = "sm3_4kb_optimized" /\ hm.pc = "output" /\ Len(hm.calls) = 65 /\ hm.calls[65].blk = 64

\* C11: for L = 4096 sm3_padding_4kb fills ceil((L+9)/64)*64 = 4160 bytes, a
\* multiple of 64: bytes [0,4096) are the message, byte 4096 is 0x80, bytes
\* 4097..4151 are zero and bytes 4152..4159 are L*8 = 32768 as a big-endian
\* 64-bit integer.
C11_PaddingLayout ==
    api = "sm3_4kb_optimized" =>
        /\ DOMAIN PaddedData = 0..((((4096 + 9 + 63) \div 64) * 64) - 1)
        /\ Cardinality(DOMAIN PaddedData) = 4160 /\ 4160 % 64 = 0
        /\ \A q \in 0..4095 : PaddedData[q] = Message(in_seed)[q]
        /\ PaddedData[4096] = 128
        /\ \A q \in 4097..4151 : PaddedData[q] = 0
        /\ \A q \in 4152..4155 : PaddedData[q] = 0
        /\ PaddedData[4156] < 128
        /\ ((PaddedData[4156] * 256 + PaddedData[4157]) * 256 + PaddedData[4158]) * 256
               + PaddedData[4159] = 4096 * 8

\* a call has hashed all 65 blocks of its padded_data, the length block included
C11_Witness ==
    /\ api = "sm3_4kb_optimized" /\ hm.pc = "done" /\ Len(hm.calls) = 65
    /\ in_seed = MaxSeed /\ PaddedData[4159] = 0 /\ PaddedData[4158] = 128

\* C12: for every 4096-byte input the 128-bit digest is the first 16 bytes of
\* the 256-bit digest: what sm3_4kb_128bit returns is bytes 0..15 of what
\* sm3_4kb_optimized returns, and what aes_sm3_integrity_128bit returns is
\* bytes 0..15 of what aes_sm3_integrity_256bit returns.
C12_TruncationIsPrefix ==
    \A a \in 1..Len(calls) : \A b \in 1..Len(calls) :
        ( /\ calls[a].seed = calls[b].seed
          /\ \/ calls[a].fn = "sm3_4kb_128bit" /\ calls[b].fn = "sm3_4kb_optimized"
             \/ calls[a].fn = "aes_sm3_integrity_128bit" /\ calls[b].fn = "aes_sm3_integrity_256bit" )
        => calls[a].out = SubSeq(calls[b].out, 1, 16)

\* C13: any two calls of the same digest function (sm3_4kb_optimized,
\* aes_sm3_integrity_256bit) on the same 4096-byte input return identical
\* bytes, whatever calls were made before or between them.
C13_RepeatedCallsAgree ==
    \A a \in 1..Len(calls) : \A b \in 1..Len(calls) :
        ( /\ calls[a].fn \in {"sm3_4kb_optimized", "aes_sm3_integrity_256bit"}
          /\ calls[a].fn = calls[b].fn
          /\ calls[a].seed = calls[b].seed )
        => calls[a].out = calls[b].out

\* the published SM3 digest of "abc": 66c7f0f4 62eeedd9 d1f2d46b dc10e4e2
\* 4167c487 5cf2f7a2 297da02b 8f4ba8e0, as eight words
AbcDigest == << <<26311, 61684>>, <<25326, 60889>>, <<53746, 54379>>, <<56336, 58594>>,
                <<16743, 50311>>, <<23794, 63394>>, <<10621, 41003>>, <<36683, 43232>> >>

\* C14: sm3_compress_hw of either file, started from SM3_IV on the one padded
\* block of the message "abc", leaves the published SM3 digest of "abc" in state.
C14_AbcVector ==
    ( /\ api = "sm3_compress_hw" /\ cm.pc = "done" /\ ~cm.asm
      /\ cm.trace[1].rin = SM3_IV
      /\ cm.block = BlockArg(cm.file, "abc", in_seed) )
    => cm.state = AbcDigest

\* the round constant of SM3: 0x79cc4519 (j < 16) or 0x7a879d8a rotated left by j mod 32
StandardTj(j) == Rotl[IF j < 16 THEN <<31180, 17689>> ELSE <<31367, 40330>>, j % 32]

\* C15: in every round j of sm3_compress_hw, in both files, the round constant
\* added into SS1 is rotl(0x79cc4519, j mod 32) for j < 16 and
\* rotl(0x7a879d8a, j mod 32) for j >= 16, so that
\* SS1 = rotl(rotl(A,12) + E + rotl(Tj, j mod 32), 7) modulo 2^32.
C15_RoundConstantRotated ==
    (api = "sm3_compress_hw" /\ ~cm.asm) =>
        \A k \in 1..Len(cm.trace) :
            /\ cm.trace[k].tj = StandardTj(k - 1)
            /\ cm.trace[k].SS1 =
                   Rotl[Add[Add[Rotl[cm.trace[k].rin[1], 12], cm.trace[k].rin[5]],
                            StandardTj(k - 1)], 7]

\* C16: on every (state, block) the inline-assembly branch of sm3_compress_hw
\* computes in every round j the SS1, SS2, TT1 and TT2 the software branch
\* computes from the same A..H, W and W_, and so leaves the same state.
C16_AsmEqualsSoftware ==
    (api = "sm3_compress_hw" /\ cm.asm) =>
        /\ \A k \in 1..Len(cm.trace) :
              cm.trace[k] = RoundValues[cm.trace[k].rin, cm.W, cm.V, k - 1]
        /\ cm.pc = "done" => cm.state = sm3_compress_hw[cm.trace[1].rin, cm.block]

\* padded_buffer of sm3_4kb_batch_optimized was NULL: the function returned
\* before it called sm3_4kb_parallel
PaddedBufferNull == api = "sm3_4kb_batch_optimized" /\ Returned /\ num_threads = -1

\* C17: when an allocation fails (padded_buffer in sm3_4kb_batch_optimized,
\* threads or thread_data in sm3_4kb_parallel) the caller gets an explicit
\* error: the call neither returns normally with digests left unwritten nor
\* goes on to use the null buffer.
C17_AllocFailureSurfaced ==
    /\ main_pc # "null_deref"
    /\ PaddedBufferNull => \A i \in 0..(block_count - 1) : SlotWritten(i)

\* slot i of the same call on pattern in_seed with message k replaced, k # i,
\* every worker created and the output 16-byte aligned
RunSlot(k, i) ==
    IF api = "sm3_4kb_batch_optimized" THEN ReplacedBatchDigest[in_seed][k][i]
    ELSE Sm3Digest[Replaced(in_seed, k)[i]]

\* C18: in a batch the digest in slot i depends only on the bytes of message i:
\* the same call with any other message k # i replaced by different bytes
\* leaves in slot i the bytes this call left there.
C18_SlotDependsOnOwnMessage ==
    ( /\ api \in {"sm3_4kb_parallel", "sm3_4kb_batch_optimized"}
      /\ Returned /\ num_threads >= 1 /\ AllCreated )
    => \A i \in 0..(block_count - 1) : \A k \in 0..(block_count - 1) :
           k # i => SlotBytes(i) = RunSlot(k, i)

\* the four bytes of word w, most significant first
BigEndian(w) == <<w[1] \div 256, w[1] % 256, w[2] \div 256, w[2] % 256>>

\* C19: the 32 bytes sm3_4kb_optimized, sm3_4kb_traditional, sm3_4kb and
\* aes_sm3_integrity_256bit return are the final state as 8 big-endian 32-bit
\* words: output bytes 4i..4i+3 are state[i], most significant byte first.
C19_DigestIsBigEndianState ==
    \A a \in 1..Len(calls) :
        calls[a].fn \in {"sm3_4kb_optimized", "sm3_4kb_traditional", "sm3_4kb",
                         "aes_sm3_integrity_256bit"}
        => /\ Len(calls[a].out) = 32
           /\ \A i \in 0..7 :
                 SubSeq(calls[a].out, 4 * i + 1, 4 * i + 4) = BigEndian(calls[a].state[i + 1])

\* W[j] as the recurrence gives it from the entries of W below j (W[j] at index j + 1)
Recurrence(W, j) ==
    Xor[Xor[P1[Xor[Xor[W[j - 16 + 1], W[j - 9 + 1]], Rotl[W[j - 3 + 1], 15]]],
            Rotl[W[j - 13 + 1], 7]], W[j - 6 + 1]]

\* C20: in sm3_compress_hw of both files every W[j], j in 16..67, is
\* P1(W[j-16] ^ W[j-9] ^ rotl(W[j-3],15)) ^ rotl(W[j-13],7) ^ W[j-6] and every
\* W'[j], j in 0..63, is W[j] ^ W[j+4]; the loops fill exactly W[16..67] and
\* W'[0..63] (file 2 four entries per iteration), W' only once W is complete,
\* and the finished W is the one the one-step-per-iteration recurrence gives.
C20_MessageExpansion ==
    (cm.file \in {1, 2} /\ cm.pc # "idle")
    => /\ Len(cm.W) <= 68 /\ Len(cm.V) <= 64
       /\ \A j \in 16..(Len(cm.W) - 1) : cm.W[j + 1] = Recurrence(cm.W, j)
       /\ \A j \in 0..(Len(cm.V) - 1) : cm.V[j + 1] = Xor[cm.W[j + 1], cm.W[j + 4 + 1]]
       /\ cm.pc = "expand" => Len(cm.W) = cm.j /\ Len(cm.V) = 0
       /\ cm.pc = "wprime" => Len(cm.V) = cm.j
       /\ (cm.file = 2 /\ cm.pc \in {"expand", "wprime"}) => cm.j % 4 = 0
       /\ cm.pc \notin {"load", "expand"}
            => /\ Len(cm.W) = 68
               /\ cm.W = ExpandRange[SubSeq(cm.W, 1, 16), 16, 68]
       /\ cm.pc \notin {"load", "expand", "wprime"} => Len(cm.V) = 64
\* file 2 has finished a block: both unrolled loops ran to their end
C20_Witness ==
    /\ cm.file = 2 /\ cm.pc = "done"
    /\ Len(cm.W) = 68 /\ Len(cm.V) = 64
    /\ cm.W[67 + 1] = Recurrence(cm.W, 67)

\* C21: the unrolled round loops of sm3_compress_hw in aes_sm3_integrity.c run
\* round j for j = 0, 1, ..., 63, each once and in this order (four per
\* iteration up to 15, two per iteration from 16 on); TT1 and TT2 of round j
\* use FF = A^B^C and GG = E^F^G for j < 16 and FF = (A&B)|(A&C)|(B&C),
\* GG = (E&F)|(~E&G) for j >= 16; the registers after the round are
\* A,B,C,D = TT1, A, rotl(B,9), C and E,F,G,H = P0(TT2), E, rotl(F,19), G; at
\* the end state[i] is the entry state[i] xor register i.
C21_RoundsOnceInOrder ==
    cm.file = 2 =>
        /\ Len(cm.trace) <= 64
        /\ cm.pc \in {"load", "expand", "wprime"} => cm.trace = <<>>
        /\ cm.pc = "rounds_low" => Len(cm.trace) = cm.j /\ cm.j % 4 = 0 /\ cm.j < 16
        /\ cm.pc = "rounds_high" => Len(cm.trace) = cm.j /\ cm.j % 2 = 0 /\ cm.j >= 16
        /\ cm.pc \in {"final", "done"} => Len(cm.trace) = 64
        /\ \A k \in 1..Len(cm.trace) :
              LET v == cm.trace[k]
                  A == v.rin[1]  B == v.rin[2]  C == v.rin[3]  D == v.rin[4]
                  E == v.rin[5]  F == v.rin[6]  G == v.rin[7]  H == v.rin[8]
                  ff == IF k - 1 < 16 THEN Xor[Xor[A, B], C]
                        ELSE Or[Or[And[A, B], And[A, C]], And[B, C]]
                  gg == IF k - 1 < 16 THEN Xor[Xor[E, F], G]
                        ELSE Or[And[E, F], And[Not[E], G]]
                  after == IF k < Len(cm.trace) THEN cm.trace[k + 1].rin ELSE cm.r
              IN /\ v.j = k - 1
                 /\ v.TT1 = Add[Add[Add[ff, D], v.SS2], cm.V[k]]
                 /\ v.TT2 = Add[Add[Add[gg, H], v.SS1], cm.W[k]]
                 /\ after = <<v.TT1, A, Rotl[B, 9], C, P0[v.TT2], E, Rotl[F, 19], G>>
        /\ (cm.pc = "done") =>
              \A i \in 1..8 : cm.state[i] = Xor[cm.trace[1].rin[i], cm.r[i]]
        /\ (cm.pc # "done" /\ cm.trace # <<>>) => cm.trace[1].rin = cm.state
\* a call of file 2 is over: both loops ran, round 15 in the first, round 16 in the second
C21_Witness ==
    /\ cm.file = 2 /\ cm.pc = "done" /\ Len(cm.trace) = 64
    /\ cm.trace[16].j = 15 /\ cm.trace[17].j = 16 /\ cm.trace[64].j = 63
    /\ cm.state # cm.trace[1].rin

\* C22: in aes_sm3_parallel with width 128 or 256 every store of a worker is
\* the digest of one message i of its own index range, written at output bytes
\* [i*width/8, (i+1)*width/8) and nowhere else: slot i then holds the digest of
\* message i (its first 16 bytes for width 128), no byte outside the slots of
\* processed messages is written, and stores of two workers never overlap.
C22_AesWorkerWritesOwnSlots ==
    api = "aes_sm3_parallel" =>
        LET w == output_size \div 8
        IN /\ output_size \in {128, 256}
           /\ \A tid \in Threads : \A iv \in wrote[tid] :
                 \E k \in 1..Len(processed[tid]) :
                    /\ iv = <<processed[tid][k] * w, (processed[tid][k] + 1) * w>>
                    /\ start_block(tid, block_count, num_threads) <= processed[tid][k]
                    /\ processed[tid][k] < end_block(tid, block_count, num_threads)
           /\ \A tid \in Threads : \A k \in 1..Len(processed[tid]) :
                 /\ <<processed[tid][k] * w, (processed[tid][k] + 1) * w>> \in wrote[tid]
                 /\ SlotBytes(processed[tid][k]) = ExpectedSlot(processed[tid][k])
           /\ \A q \in DOMAIN mem : mem[q] # -1 =>
                 \E tid \in Threads : \E k \in 1..Len(processed[tid]) :
                    processed[tid][k] * w <= q /\ q < (processed[tid][k] + 1) * w
           /\ \A tid \in Threads : \A other \in Threads \ {tid} :
                 \A iv \in wrote[tid] : \A jv \in wrote[other] :
                    iv[2] <= jv[1] \/ jv[2] <= iv[1]
\* a 128-bit call with two created workers or more has returned with MaxBlocks digests
C22_Witness ==
    /\ api = "aes_sm3_parallel" /\ output_size = 128 /\ Returned
    /\ num_threads >= 2 /\ AllCreated /\ block_count = MaxBlocks
    /\ wrote[num_threads - 1] # {} /\ wrote[0] # {}
    /\ SlotBytes(MaxBlocks - 1) = SubSeq(AesDigest[in_seed + MaxBlocks - 1], 1, 16)

\* the positions at which two byte sequences of the same length differ
Differing(a, b) == {k \in 1..Len(a) : a[k] # b[k]}

\* C23: flipping one bit of the 4096-byte input changes exactly one byte of
\* the 256-byte intermediate aes_sm3_integrity_256bit feeds to SM3, so that
\* the two inputs are never hashed as the same intermediate.
C23_FlipChangesIntermediate ==
    (fm.pc \in {"hash", "done"} /\ Cardinality(fm.ps) = 1 /\ fm.v \in {2^b : b \in 0..7})
        => /\ Len(fm.compressed) = 256 /\ Len(fm.compressed2) = 256
           /\ Cardinality(Differing(fm.compressed, fm.compressed2)) = 1

\* out[k] of group g as the claim defines it: the xor over m in 0..15 of block[k + 8m]
FoldByte(input, g, k) ==
    LET x[m \in 0..15] == IF m = 0 THEN input[128 * g + k]
                          ELSE Xor8(x[m - 1], input[128 * g + k + 8 * m])
    IN x[15]
\* the two inputs of the run have the same 32 folds
SameFolds ==
    \A g \in 0..31 : \A k \in 0..7 :
        FoldByte(Message(in_seed), g, k) = FoldByte(Altered(in_seed, fm.ps, fm.v), g, k)

\* C29: the digest of aes_sm3_integrity_256bit depends on the input through
\* its 32 folds only: two inputs with the same folds, such as an input and its
\* copy with one non-zero value xored into bytes p and p+8 of a group, get the
\* same digest.
C29_DigestDependsOnFoldsOnly ==
    (fm.pc = "done" /\ SameFolds) => DigestBytes[fm.state] = DigestBytes[fm.state2]

\* the create loop of sm3_4kb_parallel is over
CreateLoopOver ==
    api \in {"sm3_4kb_parallel", "sm3_4kb_batch_optimized"} /\ main_pc = "join" /\ main_i = 0

\* C24: when every pthread_create succeeded (so that num_threads >= 1 threads
\* run thread_worker), every worker eventually gets past pthread_barrier_wait
\* and sm3_4kb_parallel eventually returns, the threads being scheduled fairly.
C24_AllCreatedTerminates == (CreateLoopOver /\ AllCreated) ~> (Returned /\ AllExited)
\* a call with two workers or more has returned after all of them left the barrier
C24_Witness ==
    /\ api = "sm3_4kb_parallel" /\ Returned /\ num_threads >= 2 /\ AllCreated /\ AllExited
    /\ arrived = num_threads

\* C25: sm3_4kb_parallel (and aes_sm3_parallel) eventually returns whichever
\* calls of pthread_create succeeded or failed: no created worker stays at the
\* barrier for ever and the caller does not stay in pthread_join for ever.
C25_TerminatesWhateverCreateDid ==
    (main_pc = "join" /\ main_i = 0) ~> (Returned /\ \A tid \in Threads : worker_pc[tid] # "wait")

\* C26: a call sm3_4kb_optimized(input, output), output 16-byte aligned or
\* not (the caller's buffer or the temp_output of sm3_4kb_128bit), stores to
\* the 32 bytes output[0..32) only: every byte past them stays as it was.
C26_WritesOnlyOutput ==
    api = "sm3_4kb_optimized" => \A q \in DOMAIN mem : q >= 32 => mem[q] = -1

\* C27: after sm3_4kb_batch_optimized(input, output, N) has returned, all
\* threads created, output slot i holds the digest sm3_4kb_optimized computes
\* for input[4096*i .. 4096*i+4096), for every i < N: what sm3_4kb_parallel
\* writes for the same input.
C27_BatchEqualsPerMessage ==
    (api = "sm3_4kb_batch_optimized" /\ Returned /\ num_threads >= 1 /\ AllCreated)
        => \A i \in 0..(block_count - 1) : SlotBytes(i) = Sm3Digest[in_seed + i]

\* C28: for one input sm3_4kb_traditional and sm3_4kb_optimized return the
\* same 32 bytes.
C28_TraditionalEqualsOptimized ==
    \A a \in 1..Len(calls) : \A b \in 1..Len(calls) :
        ( /\ calls[a].fn = "sm3_4kb_traditional" /\ calls[b].fn = "sm3_4kb_optimized"
          /\ calls[a].seed = calls[b].seed )
        => calls[a].out = calls[b].out

\* C30: for every block_count in 0..2^31-1 and every index i < block_count
\* the values the dispatcher computes in int, i * 4096, i * 32, i * 4160 and
\* the allocation size 4160 * block_count, are the mathematical values: none
\* wraps modulo 2^32.
C30_OffsetsDoNotWrap ==
    \A k \in 1..Len(om.evals) :
        /\ FitsInt(om.evals[k].math)
        /\ om.evals[k].got = om.evals[k].math

====
